---- MODULE Spec2Model ----
(***************************************************************************)
(* Engram core: the memory store and its sync journal                      *)
(* (packages/core/src/memory/store.ts), the DLP sanitizer, the crypto      *)
(* service, the indexing service (packages/core/src/indexing/service.ts),  *)
(* the two sync engines (packages/core/src/sync/*.ts) and the secret       *)
(* store (packages/core/src/secrets/store.ts).                             *)
(*                                                                         *)
(* Text is modelled as a sequence of chunks.  Each chunk stands for a      *)
(* concrete run of characters:                                             *)
(*   "txt"  five bytes of plain text,                                      *)
(*   "key"  an OpenAI key, sk- followed by 48 alphanumerics (51 bytes),    *)
(*   "red"  the placeholder {{SECRET:OPENAI_KEY}} (21 bytes),              *)
(*   "blk"  4093 bytes of plain text that match no secret pattern,         *)
(*   "pem", "pg", "host" and their placeholders: see Chunks.               *)
(***************************************************************************)
EXTENDS Integers, Sequences, FiniteSets, TLC

\* ------------------------------------------------------------------ bounds

\* How many ids uuidv7() hands out to create() in one run.
MaxCreates == 2
\* How many rows the sync journal may hold before mutations stop.
MaxJournal == 2
\* How far the wall clock (Date.now()) advances.
MaxClock == 1

\* ------------------------------------------------------- program constants

PADDING_BLOCK_SIZE == 4096
\* embedding float[384] of the vec0 table
VecDim == 384
\* the length prefix written by addPadding
LengthPrefixBytes == 4

\* ------------------------------------------------------------------- values

Some(x) == [some |-> TRUE, val |-> x]
None == [some |-> FALSE]

\* Texts are sequences of chunks: "txt" a plain word, "key" an OpenAI API key,
\* "pem" a PEM private key block with "@!" in its body, "pg" the text
\* "postgres://u:", "host" the text "@host ", "blk" 4093 plain bytes, and
\* "red", "pemred", "dbred" the placeholders {{SECRET:OPENAI_KEY}},
\* {{SECRET:PRIVATE_KEY_BLOCK}} and {{SECRET:DB_CONNECTION_STRING}}.
Chunks == {"txt", "key", "red", "blk", "pem", "pemred", "pg", "host", "dbred"}

ChunkBytes(ch) ==
  CASE ch = "txt" -> 5
    [] ch = "key" -> 51
    [] ch = "red" -> 21
    [] ch = "blk" -> 4093
    [] ch = "pem" -> 62
    [] ch = "pemred" -> 28
    [] ch = "pg" -> 13
    [] ch = "host" -> 6
    [] ch = "dbred" -> 31

RECURSIVE ByteLength(_)
\* Buffer.from(data, 'utf8').length
ByteLength(s) == IF s = <<>> THEN 0 ELSE ChunkBytes(Head(s)) + ByteLength(Tail(s))

\* Float32Array arguments: [dim, v]. GoodVector has the dimension of the vec0
\* table, BadVector has not.
GoodVector == [dim |-> VecDim, v |-> 1]
BadVector == [dim |-> 3, v |-> 1]

NoSource == "<null>"

\* ------------------------------------------------------------ DLPSanitizer

\* SECRET_PATTERNS in the order of the source: of its twelve patterns the
\* OpenAI API key, the database URL and the private key block.
SECRET_PATTERNS == <<"OpenAI API Key", "Database URL", "Private Key">>

\* The chunks holding an '@', which [^@]+ cannot cross.
HasAt(ch) == ch \in {"pem", "host"}

\* /(postgres|...):\/\/[a-zA-Z0-9_]+:[^@]+@[a-zA-Z0-9_\-\.]+/ tried at the head of
\* s: the index of the chunk where the match ends, 0 if it does not match.
\* The password runs to the first '@', which has to be followed by a host.
DbUrlEnd(s) ==
  IF s # <<>> /\ Head(s) = "pg" /\ \E k \in 2..Len(s) : HasAt(s[k])
  THEN LET k == CHOOSE k \in 2..Len(s) : HasAt(s[k]) /\ \A j \in 2..(k - 1) : ~HasAt(s[j])
       IN  IF k > 2 /\ s[k] = "host" THEN k ELSE 0
  ELSE 0

\* p.pattern.test(text)
test(pattern, s) ==
  CASE pattern = "OpenAI API Key" -> \E i \in 1..Len(s) : s[i] = "key"
    [] pattern = "Private Key" -> \E i \in 1..Len(s) : s[i] = "pem"
    [] pattern = "Database URL" -> \E i \in 1..Len(s) : DbUrlEnd(SubSeq(s, i, Len(s))) # 0

RECURSIVE replace(_, _)
\* text.replace(p.pattern, `{{SECRET:${p.redactLabel}}}`), every match from the left
replace(pattern, s) ==
  IF s = <<>> THEN <<>>
  ELSE CASE pattern = "OpenAI API Key" ->
              <<IF Head(s) = "key" THEN "red" ELSE Head(s)>> \o replace(pattern, Tail(s))
         [] pattern = "Private Key" ->
              <<IF Head(s) = "pem" THEN "pemred" ELSE Head(s)>> \o replace(pattern, Tail(s))
         [] pattern = "Database URL" ->
              IF DbUrlEnd(s) # 0
              THEN <<"dbred">> \o replace(pattern, SubSeq(s, DbUrlEnd(s) + 1, Len(s)))
              ELSE <<Head(s)>> \o replace(pattern, Tail(s))

\* DLPSanitizer.hasSecrets
hasSecrets(s) == \E i \in 1..Len(SECRET_PATTERNS) : test(SECRET_PATTERNS[i], s)

RECURSIVE sanitizeFrom(_, _, _)
\* for (const p of this.patterns) if (p.pattern.test(sanitized)) { ... }: one
\* pass over the patterns in order, each applied to what the earlier ones left.
sanitizeFrom(i, sanitized, detected) ==
  IF i > Len(SECRET_PATTERNS) THEN [sanitized |-> sanitized, detected |-> detected]
  ELSE LET p == SECRET_PATTERNS[i]
       IN  IF test(p, sanitized)
           THEN sanitizeFrom(i + 1, replace(p, sanitized), detected \cup {p})
           ELSE sanitizeFrom(i + 1, sanitized, detected)

\* DLPSanitizer.sanitize: { sanitized, detected }
sanitize(text) ==
  IF text = <<>> THEN [sanitized |-> text, detected |-> {}]
  ELSE sanitizeFrom(1, text, {})

\* The patterns carry the g flag and are shared by every DLPSanitizer
\* (this.patterns = [...SECRET_PATTERNS]), so RegExp.prototype.test reads and
\* writes their lastIndex. Positions count chunks: lastIndex n is the position
\* after the n-th chunk.

\* Where a match of the pattern that starts at chunk i ends, 0 if none does.
MatchEnd(pattern, s, i) ==
  CASE pattern = "OpenAI API Key" -> IF s[i] = "key" THEN i ELSE 0
    [] pattern = "Private Key" -> IF s[i] = "pem" THEN i ELSE 0
    [] pattern = "Database URL" ->
         IF DbUrlEnd(SubSeq(s, i, Len(s))) # 0 THEN i - 1 + DbUrlEnd(SubSeq(s, i, Len(s)))
         ELSE 0

\* p.pattern.test(text) of a global pattern: the search starts at lastIndex;
\* a match leaves lastIndex at its end, no match resets it to 0.
RegExp_test(pattern, s, lastIndex) ==
  LET starts == {i \in (lastIndex + 1)..Len(s) : MatchEnd(pattern, s, i) # 0}
  IN  IF starts = {} THEN [found |-> FALSE, lastIndex |-> 0]
      ELSE [found |-> TRUE,
            lastIndex |-> MatchEnd(pattern, s, CHOOSE i \in starts : \A j \in starts : i <= j)]

RECURSIVE sanitizeLoop(_, _, _, _)
\* The loop of sanitize over the shared patterns: String.prototype.replace
\* with a global pattern searches from 0 and leaves lastIndex at 0.
sanitizeLoop(i, sanitized, detected, lastIndex) ==
  IF i > Len(SECRET_PATTERNS)
  THEN [sanitized |-> sanitized, detected |-> detected, lastIndex |-> lastIndex]
  ELSE LET p == SECRET_PATTERNS[i]
           t == RegExp_test(p, sanitized, lastIndex[p])
       IN  IF t.found
           THEN sanitizeLoop(i + 1, replace(p, sanitized), detected \cup {p},
                             [lastIndex EXCEPT ![p] = 0])
           ELSE sanitizeLoop(i + 1, sanitized, detected, [lastIndex EXCEPT ![p] = t.lastIndex])

\* DLPSanitizer.sanitize with the patterns as earlier calls left them
DLPSanitizer_sanitize(text, lastIndex) ==
  IF text = <<>> THEN [sanitized |-> text, detected |-> {}, lastIndex |-> lastIndex]
  ELSE sanitizeLoop(1, text, {}, lastIndex)

RECURSIVE hasSecretsLoop(_, _, _)
\* The loop of hasSecrets: it returns at the first pattern that matches and
\* leaves that pattern's lastIndex at the end of the match.
hasSecretsLoop(i, text, lastIndex) ==
  IF i > Len(SECRET_PATTERNS) THEN [ret |-> FALSE, lastIndex |-> lastIndex]
  ELSE LET p == SECRET_PATTERNS[i]
           t == RegExp_test(p, text, lastIndex[p])
       IN  IF t.found THEN [ret |-> TRUE, lastIndex |-> [lastIndex EXCEPT ![p] = t.lastIndex]]
           ELSE hasSecretsLoop(i + 1, text, [lastIndex EXCEPT ![p] = 0])

\* DLPSanitizer.hasSecrets with the patterns as earlier calls left them
DLPSanitizer_hasSecrets(text, lastIndex) == hasSecretsLoop(1, text, lastIndex)

\* Every pattern as the module creates it.
FreshPatterns == [p \in {SECRET_PATTERNS[i] : i \in 1..Len(SECRET_PATTERNS)} |-> 0]

\* ------------------------------------------------------------ CryptoService

\* CryptoService.sha256: a collision-free digest of the text.
sha256(data) == <<"sha256">> \o data
NullChecksum == <<>>

\* paddedLength - dataBuffer.length - 4, the argument of randomBytes().
PaddingBytes(data) ==
  LET n == ByteLength(data)
      paddedLength == ((n + PADDING_BLOCK_SIZE - 1) \div PADDING_BLOCK_SIZE) * PADDING_BLOCK_SIZE
  IN  paddedLength - n - LengthPrefixBytes

\* addPadding: length prefix, data, random padding. randomBytes(n) throws a
\* RangeError for n < 0.
addPadding(data) ==
  IF PaddingBytes(data) < 0
  THEN [ok |-> FALSE]
  ELSE [ok |-> TRUE, originalLength |-> ByteLength(data), data |-> data, padding |-> PaddingBytes(data)]

RECURSIVE TakeBytes(_, _)
\* buffer.subarray(4, 4 + originalLength) over the chunks of the data
TakeBytes(s, n) ==
  IF s = <<>> \/ n < ChunkBytes(Head(s)) THEN <<>>
  ELSE <<Head(s)>> \o TakeBytes(Tail(s), n - ChunkBytes(Head(s)))

removePadding(padded) == TakeBytes(padded.data, padded.originalLength)

\* encrypt: AES-256-GCM of the padded text under the master key.
encrypt(masterKey, plaintext) ==
  LET padded == addPadding(plaintext)
  IN  IF ~padded.ok THEN [ok |-> FALSE, error |-> "RangeError"]
      ELSE [ok |-> TRUE, val |-> [key |-> masterKey, padded |-> padded]]

\* decrypt: the auth tag verifies only under the key that encrypted.
decrypt(masterKey, encryptedData) ==
  IF encryptedData.key # masterKey
  THEN [ok |-> FALSE, error |-> "Unsupported state or unable to authenticate data"]
  ELSE [ok |-> TRUE, val |-> removePadding(encryptedData.padded)]

\* -------------------------------------------------------------- MemoryStore
\* The database is the record db = [memories, memories_vec, sync_events]:
\*   memories      id -> row of the main table (its domain: the ids present),
\*   memories_vec  memory_id -> embedding of the vec0 table,
\*   sync_events   the journal rows in insertion order,
\* and two history fields that the program does not hold:
\*   mutations     <<type, id>> of every data change create, update and delete
\*                 committed, in commit order,
\*   calls         <<type, id>> of every create, update and delete call that
\*                 returned a memory (create, update) or true (delete).
\* Every operation returns [db, ok, ret, error]: the database it leaves, whether
\* it returned (ok) or threw (error), and its return value.

Returned(db, ret) == [db |-> db, ok |-> TRUE, ret |-> ret, error |-> ""]
Threw(db, error) == [db |-> db, ok |-> FALSE, ret |-> None, error |-> error]

RECURSIVE MaxSeq(_)
MaxSeq(events) ==
  IF events = <<>> THEN 0
  ELSE LET m == MaxSeq(Tail(events))
       IN  IF Head(events).sequenceNum > m THEN Head(events).sequenceNum ELSE m

\* SELECT MAX(sequence_num) FROM sync_events, 0 for an empty table
getLatestSequenceNum(db) == MaxSeq(db.sync_events)

\* The id and timestamp columns of a journal row are not modelled: nothing
\* reads them back.
recordSyncEvent(db, type, memoryId, encryptedData, checksum) ==
  [db EXCEPT !.sync_events =
     Append(@, [type |-> type, memoryId |-> memoryId, encryptedData |-> encryptedData,
                checksum |-> checksum, sequenceNum |-> getLatestSequenceNum(db) + 1])]

\* encryptContent: null without a crypto service (key 0), else the envelope
\* and the checksum; encrypt may throw.
encryptContent(cryptoKey, content) ==
  IF cryptoKey = 0 THEN [ok |-> TRUE, val |-> None, checksum |-> NullChecksum]
  ELSE LET e == encrypt(cryptoKey, content)
       IN  IF ~e.ok THEN [ok |-> FALSE, error |-> e.error]
           ELSE [ok |-> TRUE, val |-> Some(e.val), checksum |-> sha256(content)]

decryptContent(cryptoKey, encrypted) ==
  IF cryptoKey = 0 THEN [ok |-> FALSE, error |-> "Crypto service not configured"]
  ELSE decrypt(cryptoKey, encrypted)

get(db, id) == IF id \in DOMAIN db.memories THEN Some(db.memories[id]) ELSE None

Includes(tags, t) == \E i \in 1..Len(tags) : tags[i] = t

\* INSERT INTO memories: the primary key rejects a second row with the id.
InsertMemory(db, row) ==
  IF row.id \in DOMAIN db.memories
  THEN [ok |-> FALSE, error |-> "UNIQUE constraint failed: memories.id"]
  ELSE [ok |-> TRUE, db |-> [db EXCEPT !.memories = (row.id :> row) @@ @]]

\* INSERT INTO memories_vec: vec0 rejects a vector of the wrong dimension and a
\* second row with the primary key.
InsertVec(db, id, vector) ==
  IF vector.dim # VecDim
  THEN [ok |-> FALSE, error |-> "Dimension mismatch for inserted vector"]
  ELSE IF id \in DOMAIN db.memories_vec
  THEN [ok |-> FALSE, error |-> "UNIQUE constraint failed on memories_vec primary key"]
  ELSE [ok |-> TRUE, db |-> [db EXCEPT !.memories_vec = (id :> vector) @@ @]]

\* UPDATE memories_vec SET embedding = ? WHERE memory_id = ?
UpdateVec(db, id, vector) ==
  IF id \notin DOMAIN db.memories_vec THEN [ok |-> TRUE, db |-> db]
  ELSE IF vector.dim # VecDim
  THEN [ok |-> FALSE, error |-> "Dimension mismatch for inserted vector"]
  ELSE [ok |-> TRUE, db |-> [db EXCEPT !.memories_vec[id] = vector]]

Without(f, id) == [k \in DOMAIN f \ {id} |-> f[k]]

Committed(db, type, id) == [db EXCEPT !.mutations = Append(@, <<type, id>>)]
CallReturned(db, type, id) == [db EXCEPT !.calls = Append(@, <<type, id>>)]

\* MemoryStore.create; id is the value of uuidv7(), now of Date.now().
create(db, cryptoKey, id, now, input, vector) ==
  LET s == sanitize(input.content)
      inTags == IF input.tags.some THEN input.tags.val ELSE <<>>
      finalTags == IF s.detected # {} /\ ~Includes(inTags, "dlp-redacted")
                   THEN Append(inTags, "dlp-redacted") ELSE inTags
      memory == [id |-> id, content |-> s.sanitized, vector |-> vector, tags |-> finalTags,
                 source |-> input.source, createdAt |-> now]
      \* this.db.transaction: both inserts or neither
      m == InsertMemory(db, memory)
      v == IF m.ok THEN InsertVec(m.db, id, vector) ELSE m
  IN  IF ~v.ok THEN Threw(db, v.error)
      ELSE LET db1 == Committed(v.db, "ADD", id)
               e == encryptContent(cryptoKey, memory.content)
           IN  IF ~e.ok THEN Threw(db1, e.error)
               ELSE Returned(CallReturned(recordSyncEvent(db1, "ADD", id, e.val, e.checksum),
                                          "ADD", id),
                             Some(memory))

\* the caller's list taken as it is
newTags_AsSupplied(existingTags, tags) == tags

\* update's newTags: the caller's list, with dlp-redacted appended when the
\* row had it and the list omits it
newTags(existingTags, tags) ==
  IF Includes(existingTags, "dlp-redacted") /\ ~Includes(tags, "dlp-redacted")
  THEN Append(tags, "dlp-redacted")
  ELSE tags

\* MemoryStore.update; updates = [content, tags], each Some(..) or None.
update(db, cryptoKey, id, updates, newVector) ==
  LET existing == get(db, id)
  IN  IF ~existing.some THEN Returned(db, None)
      ELSE
      LET old == existing.val
          \* if (updates.tags): keep dlp-redacted if the row had it
          tags1 == IF updates.tags.some THEN Some(newTags(old.tags, updates.tags.val))
                   ELSE None
          \* if (updates.content): the empty string is falsy
          truthy == updates.content.some /\ updates.content.val # <<>>
          s == IF truthy THEN sanitize(updates.content.val)
               ELSE [sanitized |-> <<>>, detected |-> {}]
          content1 == IF truthy THEN Some(s.sanitized) ELSE updates.content
          currentTags == IF tags1.some THEN tags1.val ELSE old.tags
          tags2 == IF truthy /\ s.detected # {} /\ ~Includes(currentTags, "dlp-redacted")
                   THEN Some(Append(currentTags, "dlp-redacted")) ELSE tags1
          updated == [old EXCEPT !.content = IF content1.some THEN content1.val ELSE @,
                                 !.tags = IF tags2.some THEN tags2.val ELSE @]
          \* this.db.transaction: UPDATE memories, then UPDATE memories_vec
          db1 == [db EXCEPT !.memories[id] = updated]
          v == IF newVector.some THEN UpdateVec(db1, id, newVector.val)
               ELSE [ok |-> TRUE, db |-> db1]
      IN  IF ~v.ok THEN Threw(db, v.error)
          ELSE LET db2 == Committed(v.db, "UPDATE", id)
                   e == encryptContent(cryptoKey, updated.content)
               IN  IF ~e.ok THEN Threw(db2, e.error)
                   ELSE Returned(CallReturned(
                                   recordSyncEvent(db2, "UPDATE", id, e.val, e.checksum),
                                   "UPDATE", id),
                                 Some(IF newVector.some
                                      THEN [updated EXCEPT !.vector = newVector.val]
                                      ELSE updated))

\* delete without its tombstone
delete_NoTombstone(db, id) ==
  IF ~get(db, id).some THEN Returned(db, FALSE)
  ELSE LET db1 == [db EXCEPT !.memories = Without(@, id),
                             !.memories_vec = Without(@, id)]
       IN  Returned(CallReturned(Committed(db1, "DELETE", id), "DELETE", id), TRUE)

\* delete that writes its tombstone without looking for the row
delete_AlwaysTombstone(db, id) ==
  LET db1 == [db EXCEPT !.memories = Without(@, id), !.memories_vec = Without(@, id)]
  IN  Returned(recordSyncEvent(db1, "DELETE", id, None, NullChecksum), get(db, id).some)

\* MemoryStore.delete
delete(db, id) ==
  IF ~get(db, id).some THEN Returned(db, FALSE)
  ELSE LET db1 == [db EXCEPT !.memories = Without(@, id),
                             !.memories_vec = Without(@, id)]
           db2 == Committed(db1, "DELETE", id)
       IN  Returned(CallReturned(recordSyncEvent(db2, "DELETE", id, None, NullChecksum),
                                 "DELETE", id),
                    TRUE)

RECURSIVE deleteAll(_, _)
\* the loop of deleteOlderThan over the selected ids
deleteAll(db, ids) ==
  IF ids = <<>> THEN db ELSE deleteAll(delete(db, Head(ids)).db, Tail(ids))

\* SELECT id FROM memories WHERE created_at < ?
OlderThan(db, timestampMs) == {id \in DOMAIN db.memories : db.memories[id].createdAt < timestampMs}

\* MemoryStore.deleteOlderThan; ids: the selected ids in the order the SELECT
\* returned them.
deleteOlderThan(db, ids) == Returned(deleteAll(db, ids), Len(ids))

\* MemoryStore.createFromSync: two inserts, no transaction around them.
createFromSync(db, id, content, vector, timestamp) ==
  LET s == sanitize(content)
      tags == IF s.detected # {} THEN <<"dlp-redacted">> ELSE <<>>
      m == InsertMemory(db, [id |-> id, content |-> s.sanitized, vector |-> vector,
                             tags |-> tags, source |-> "sync", createdAt |-> timestamp])
  IN  IF ~m.ok THEN Threw(db, m.error)
      ELSE LET v == InsertVec(m.db, id, vector)
           IN  IF ~v.ok THEN Threw(m.db, v.error) ELSE Returned(v.db, None)

\* the checksum never compared
ChecksumAccepted_Always(event, content) == TRUE

\* if (event.checksum) { if (sha256(content) !== event.checksum) throw }
ChecksumAccepted(event, content) ==
  event.checksum = NullChecksum \/ sha256(content) = event.checksum

\* an ADD for an id the store holds applied as an update
applyEncryptedSyncEvent_AddUpdates(db, cryptoKey, event, vector) ==
  IF ~event.encryptedData.some THEN Threw(db, "Sync event has no encrypted data")
  ELSE
  LET d == decryptContent(cryptoKey, event.encryptedData.val)
  IN  IF ~d.ok THEN Threw(db, d.error)
      ELSE IF ~ChecksumAccepted(event, d.val)
      THEN Threw(db, "Checksum mismatch - data may be corrupted")
      ELSE IF event.type = "ADD" /\ vector.some /\ ~get(db, event.memoryId).some
      THEN createFromSync(db, event.memoryId, d.val, vector.val, event.timestamp)
      ELSE IF event.type \in {"ADD", "UPDATE"}
      THEN LET u == update(db, cryptoKey, event.memoryId,
                           [content |-> Some(d.val), tags |-> None], None)
           IN  IF u.ok THEN Returned(u.db, None) ELSE u
      ELSE IF event.type = "DELETE"
      THEN Returned(delete(db, event.memoryId).db, None)
      ELSE Returned(db, None)

\* MemoryStore.applyEncryptedSyncEvent; vector is Some(..) or None.
applyEncryptedSyncEvent(db, cryptoKey, event, vector) ==
  IF ~event.encryptedData.some THEN Threw(db, "Sync event has no encrypted data")
  ELSE
  LET d == decryptContent(cryptoKey, event.encryptedData.val)
  IN  IF ~d.ok THEN Threw(db, d.error)
      ELSE IF ~ChecksumAccepted(event, d.val)
      THEN Threw(db, "Checksum mismatch - data may be corrupted")
      ELSE IF event.type = "ADD" /\ vector.some
      THEN IF get(db, event.memoryId).some THEN Returned(db, None)
           ELSE createFromSync(db, event.memoryId, d.val, vector.val, event.timestamp)
      ELSE IF event.type = "UPDATE"
      THEN LET u == update(db, cryptoKey, event.memoryId,
                           [content |-> Some(d.val), tags |-> None], None)
           IN  IF u.ok THEN Returned(u.db, None) ELSE u
      ELSE IF event.type = "DELETE"
      THEN Returned(delete(db, event.memoryId).db, None)
      ELSE Returned(db, None)

\* ------------------------------------------------------------------- state

VARIABLES
  memories,      \* main table: id -> row
  memories_vec,  \* vec0 table: memory_id -> embedding
  sync_events,   \* the journal, in insertion order
  mutations,     \* history: data changes committed by create/update/delete
  calls,         \* history: create/update/delete calls that succeeded
  cryptoKey,     \* MemoryStore.crypto: 0 for null, else the master key
  nextId,        \* the next id uuidv7() returns
  clock,         \* Date.now()
  last,          \* the call that made the last step, and how it ended
  \* IndexingService
  ingests,       \* the ingestFile calls made so far, each with its position
  progressMap,   \* path -> type of the last event emitted for it
  recentEvents,  \* the ring of emitted events
  llmConfigured, \* llmService?.isConfigured()
  \* SyncEngine and SecretsSyncEngine
  syncEngine,    \* SyncEngine's fields
  secretsEngine, \* SecretsSyncEngine's fields
  local_secret_sync_events, \* the secrets journal, in insertion order
  secret_sync_state,        \* the 'sync_cursor' row: None or Some(value)
  pending,       \* HTTP requests in flight: request id -> request
  fetchCount,    \* how many times fetch was called
  \* SecretStore
  secrets,       \* the rows of the secrets table
  secretStore,   \* SecretStore's fields syncEngine (set or null) and syncEnabled
  secretUuids,   \* how many ids uuidv7() has returned to the secret store
  latestSecret,  \* history: key -> what the last set or delete that returned left
  \* CryptoService
  plaintext,     \* the string handed to encrypt
  masterKey,     \* the key the service was constructed with
  encryptResult,    \* None, or Some(outcome of encrypt(plaintext))
  decryptResult,    \* None, or Some(outcome of decrypt of what encrypt returned)
  \* the sync server, and what the SyncEngine's pulls returned
  remote_sync_events, \* the server's sync_events rows of this user
  pulled,        \* history: what each pull and pullAll that returned handed back
  \* EmbeddingService
  extractor,     \* this.extractor is set
  isInitializing, \* this.isInitializing
  initPromise,   \* this.initPromise: "null", or the state of the promise
  pipelineCalls, \* history: how many times pipeline() was called
  embedCalls,    \* the initialize and embed calls made so far, each with its position
  \* MCP tool facade
  serverConfig,  \* what createEngramServer was given
  toolCalls,     \* the tool calls made so far, each with its position and result
  \* DLPSanitizer called directly
  pattern_lastIndex, \* p.pattern.lastIndex of each of the shared SECRET_PATTERNS
  dlpCall,       \* the last sanitize or hasSecrets call: its text and what it returned
  \* the web app's device linking route
  device_link_requests, \* the rows of the table device_link_requests
  devices,       \* the rows of the table devices
  linkCalls,     \* the POST requests made so far, each with its position and response
  linkClock      \* new Date() on the server

storeVars == <<memories, memories_vec, sync_events, mutations, calls, cryptoKey, nextId, clock, last>>
indexingVars == <<ingests, progressMap, recentEvents, llmConfigured>>

syncVars == <<syncEngine, secretsEngine, local_secret_sync_events, secret_sync_state,
              pending, fetchCount, secrets, secretStore, secretUuids, latestSecret,
              remote_sync_events, pulled>>
storeData == <<memories, memories_vec, sync_events, mutations, calls, cryptoKey, nextId, clock>>

cryptoVars == <<plaintext, masterKey, encryptResult, decryptResult>>

embeddingVars == <<extractor, isInitializing, initPromise, pipelineCalls, embedCalls>>

toolVars == <<serverConfig, toolCalls>>

sanitizerVars == <<pattern_lastIndex, dlpCall>>

linkVars == <<device_link_requests, devices, linkCalls, linkClock>>

vars == <<storeVars, indexingVars, syncVars, cryptoVars, embeddingVars, toolVars, sanitizerVars, linkVars>>

DB == [memories |-> memories, memories_vec |-> memories_vec, sync_events |-> sync_events,
       mutations |-> mutations, calls |-> calls]

SetDB(db) ==
  /\ memories' = db.memories
  /\ memories_vec' = db.memories_vec
  /\ sync_events' = db.sync_events
  /\ mutations' = db.mutations
  /\ calls' = db.calls

EmptyRows == [id \in {} |-> None]

\* A memory created on another device carries an id this store never generates.
PeerId == 0
AllocatedIds == 1..(nextId - 1)
KnownIds == AllocatedIds \cup {PeerId}

Opt(S) == {None} \cup {Some(x) : x \in S}

\* The events a pull can hand to applyEncryptedSyncEvent: what create, update
\* and delete of a peer store recorded for a sanitized text (DELETE with null
\* data and checksum), and the same with the envelope swapped for one of
\* another text. keys: the master keys peers hold (this device holds key 1).
\* An ADD carries the id its creator generated, so never an id of this store.
PeerEvents(ids, keys, contents) ==
  LET recorded ==
        {[type |-> t, memoryId |-> id, encryptedData |-> Some(encrypt(k, sent).val),
          checksum |-> sha256(c), timestamp |-> clock] :
            t \in {"ADD", "UPDATE"}, id \in ids, k \in keys, c \in contents, sent \in contents}
      tombstones ==
        {[type |-> "DELETE", memoryId |-> id, encryptedData |-> None,
          checksum |-> NullChecksum, timestamp |-> clock] : id \in ids}
  IN  {ev \in recorded : ev.type = "ADD" => ev.memoryId = PeerId} \cup tombstones

\* What `last` keeps of a call: its name and how it ended.
Last(op, r) == [op |-> op, ok |-> r.ok, error |-> r.error]
Quiet(op) == [op |-> op, ok |-> TRUE, error |-> ""]

IndexingInit ==
  /\ ingests = <<>>
  /\ progressMap = EmptyRows
  /\ recentEvents = <<>>
  /\ llmConfigured \in BOOLEAN

\* No CryptoService call is under way.
CryptoIdle ==
  /\ plaintext = <<>>
  /\ masterKey = 0
  /\ encryptResult = None
  /\ decryptResult = None

\* new EmbeddingService(), and no call made on it.
EmbeddingIdle ==
  /\ extractor = FALSE
  /\ isInitializing = FALSE
  /\ initPromise = "null"
  /\ pipelineCalls = 0
  /\ embedCalls = <<>>

\* No call made on a DLPSanitizer of its own; the store's sanitizer is only
\* ever asked to sanitize, which leaves every lastIndex at 0.
SanitizerIdle ==
  /\ pattern_lastIndex = FreshPatterns
  /\ dlpCall = [op |-> "new", text |-> <<>>, sanitized |-> <<>>, detected |-> {}, ret |-> FALSE]

\* No request has reached the linking route; its tables are empty.
LinkIdle ==
  /\ device_link_requests = {}
  /\ devices = {}
  /\ linkCalls = <<>>
  /\ linkClock = 0

\* No server was created.
ToolsIdle ==
  /\ serverConfig = [masterKey |-> FALSE, vaultKey |-> FALSE, blindIndexKey |-> FALSE, sync |-> FALSE]
  /\ toolCalls = <<>>

\* How many chunks a text handed to encrypt has.
MaxChunks == 3
CryptoChunks == {"txt", "key", "pem", "blk"}
CryptoKeys == {1, 2}

\* Every text of n chunks.
Texts(chunks, n) == [1..n -> chunks]

\* new CryptoService(masterKey), and a non-empty string to encrypt.
CryptoInit ==
  /\ plaintext \in UNION {Texts(CryptoChunks, n) : n \in 1..MaxChunks}
  /\ masterKey \in CryptoKeys
  /\ encryptResult = None
  /\ decryptResult = None

\* crypto.encrypt(plaintext)
Encrypt ==
  /\ encryptResult = None
  /\ encryptResult' = Some(encrypt(masterKey, plaintext))
  /\ UNCHANGED <<plaintext, masterKey, decryptResult, storeVars, indexingVars, syncVars, embeddingVars, toolVars, sanitizerVars, linkVars>>

\* crypto.decrypt(encrypted) of what encrypt returned
Decrypt ==
  /\ encryptResult.some /\ encryptResult.val.ok
  /\ decryptResult = None
  /\ decryptResult' = Some(decrypt(masterKey, encryptResult.val.val))
  /\ UNCHANGED <<plaintext, masterKey, encryptResult, storeVars, indexingVars, syncVars, embeddingVars, toolVars, sanitizerVars, linkVars>>

CryptoNext == Encrypt \/ Decrypt

StoreInit ==
  /\ memories = EmptyRows
  /\ memories_vec = EmptyRows
  /\ sync_events = <<>>
  /\ mutations = <<>>
  /\ calls = <<>>
  /\ cryptoKey \in {0, 1}
  /\ nextId = 1
  /\ clock = 0
  /\ last = Quiet("new")

\* Room left for n more committed mutations.
Room(n) == Len(mutations) + n <= MaxJournal

\* How many mutations a call commits.
Growth(r) == Len(r.db.mutations) - Len(mutations)

SetCryptoService ==
  /\ cryptoKey = 0
  /\ cryptoKey' = 1
  /\ last' = Quiet("setCryptoService")
  /\ UNCHANGED <<memories, memories_vec, sync_events, mutations, calls, nextId, clock, indexingVars, syncVars, cryptoVars, embeddingVars, toolVars, sanitizerVars, linkVars>>

Tick ==
  /\ clock < MaxClock
  /\ clock' = clock + 1
  /\ last' = Quiet("tick")
  /\ UNCHANGED <<memories, memories_vec, sync_events, mutations, calls, cryptoKey, nextId, indexingVars, syncVars, cryptoVars, embeddingVars, toolVars, sanitizerVars, linkVars>>

Create(contents, tagInputs, vectors) ==
  /\ nextId <= MaxCreates
  /\ Room(1)
  /\ \E content \in contents, tags \in tagInputs, vector \in vectors :
       LET r == create(DB, cryptoKey, nextId, clock,
                       [content |-> content, tags |-> tags, source |-> NoSource], vector)
       IN  /\ SetDB(r.db)
           /\ last' = Last("create", r)
           \* an id whose insert rolled back left no trace: it is handed out again
           /\ nextId' = IF nextId \in DOMAIN r.db.memories THEN nextId + 1 ELSE nextId
  /\ UNCHANGED <<cryptoKey, clock, indexingVars, syncVars, cryptoVars, embeddingVars, toolVars, sanitizerVars, linkVars>>

Update(contents, tagInputs, vectors) ==
  /\ \E id \in KnownIds, content \in Opt(contents), tags \in tagInputs, newVector \in Opt(vectors) :
       LET r == update(DB, cryptoKey, id, [content |-> content, tags |-> tags], newVector)
       IN  /\ Room(Growth(r))
           /\ SetDB(r.db)
           /\ last' = Last("update", r)
  /\ UNCHANGED <<cryptoKey, nextId, clock, indexingVars, syncVars, cryptoVars, embeddingVars, toolVars, sanitizerVars, linkVars>>

Delete ==
  /\ \E id \in KnownIds :
       LET r == delete(DB, id)
       IN  /\ Room(Growth(r))
           /\ SetDB(r.db)
           /\ last' = Last("delete", r)
  /\ UNCHANGED <<cryptoKey, nextId, clock, indexingVars, syncVars, cryptoVars, embeddingVars, toolVars, sanitizerVars, linkVars>>

\* The sequences that list the members of a set once each.
Orders(S) == {o \in [1..Cardinality(S) -> S] : \A i, j \in 1..Cardinality(S) : o[i] = o[j] => i = j}

DeleteOlderThan ==
  \E timestampMs \in 0..(MaxClock + 1) :
    /\ Room(Cardinality(OlderThan(DB, timestampMs)))
    /\ \E ids \in Orders(OlderThan(DB, timestampMs)) :
         LET r == deleteOlderThan(DB, ids)
         IN  /\ SetDB(r.db)
             /\ last' = Last("deleteOlderThan", r)
    /\ UNCHANGED <<cryptoKey, nextId, clock, indexingVars, syncVars, cryptoVars, embeddingVars, toolVars, sanitizerVars, linkVars>>

ApplyEncryptedSyncEvent(keys, contents, vectors) ==
  /\ Room(1)
  /\ \E event \in PeerEvents(KnownIds, keys, contents), vector \in Opt(vectors) :
       LET r == applyEncryptedSyncEvent(DB, cryptoKey, event, vector)
       IN  /\ SetDB(r.db)
           /\ last' = Last("applyEncryptedSyncEvent", r)
  /\ UNCHANGED <<cryptoKey, nextId, clock, indexingVars, syncVars, cryptoVars, embeddingVars, toolVars, sanitizerVars, linkVars>>

\* The inputs of the store's specification: an empty text (falsy in update),
\* a plain text, one holding a secret, and one of 4093 bytes.
StoreContents == {<<>>, <<"txt">>, <<"key">>, <<"blk">>}
StoreTagInputs == {None}
StoreVectors == {GoodVector, BadVector}
StorePeerKeys == {1, 2}
StorePeerContents == {<<"txt">>, <<"red">>}

\* The inputs of the sanitizer's specification: a plain text, one holding an
\* API key, and a database URL whose password is a private key block; no
\* tags, a tag, the tag dlp-redacted, and that tag twice; and from peers the
\* contents a store holds of those texts.
DLPContents == {<<"txt">>, <<"key">>, <<"pg", "pem", "host">>}
DLPTagInputs == {None, Some(<<"test">>), Some(<<"dlp-redacted">>),
                 Some(<<"dlp-redacted", "dlp-redacted">>)}
DLPPeerContents == {sanitize(content).sanitized : content \in DLPContents}

DLPNext ==
  \/ Create(DLPContents, DLPTagInputs, {GoodVector})
  \/ Update(DLPContents, DLPTagInputs, {GoodVector})
  \/ ApplyEncryptedSyncEvent({1}, DLPPeerContents, {GoodVector})

StoreNext ==
  \/ SetCryptoService
  \/ Tick
  \/ Create(StoreContents, StoreTagInputs, StoreVectors)
  \/ Update(StoreContents, StoreTagInputs, StoreVectors)
  \/ Delete
  \/ DeleteOlderThan
  \/ ApplyEncryptedSyncEvent(StorePeerKeys, StorePeerContents, StoreVectors)

\* ---------------------------------------------------------- IndexingService

\* How many ingestFile calls the watcher dispatches in one run.
MaxIngests == 2
MAX_RECENT_EVENTS == 200

\* The watched files. What canParse reads of a path: how it ends and which of
\* the probed substrings it includes.
ClaudePath == "/home/u/.claude/projects/app/s1.jsonl"
MultiPath == "/home/u/opencode/cursor/s2.json"
OtherPath == "/home/u/.claude/projects/app/notes.txt"

PathEnd(path) ==
  CASE path = ClaudePath -> ".jsonl"
    [] path = MultiPath -> ".json"
    [] path = OtherPath -> ".txt"

PathIncludes(path) ==
  CASE path = ClaudePath -> {".claude/projects"}
    [] path = MultiPath -> {"opencode", "cursor"}
    [] path = OtherPath -> {".claude/projects"}

\* this.parsers in registration order
Parsers == <<"claude", "opencode", "cursor", "codex", "skill">>

canParse(parser, path) ==
  LET end == PathEnd(path)
      inc == PathIncludes(path)
  IN  CASE parser = "claude" ->
             end = ".jsonl" /\ inc \cap {".claude/projects", "claude-code"} # {}
        [] parser = "opencode" ->
             end = ".json" /\ inc \cap {".opencode/history", "opencode"} # {}
        [] parser = "cursor" ->
             end \in {".json", ".log"} /\ inc \cap {"cursor", "workspaceStorage", ".cursor"} # {}
        [] parser = "codex" -> end = ".json" /\ ".codex" \in inc
        [] parser = "skill" ->
             /\ end \in {".md", "SKILL.md"}
             /\ \/ "/skills/" \in inc /\ end = "SKILL.md"
                \/ "/agents/" \in inc /\ "/references/" \notin inc
                \/ "/commands/" \in inc /\ "/references/" \notin inc

\* What a file holds when it is read: "json", one JSON document with a
\* non-empty messages array; "jsonl", several lines, each a user or assistant
\* entry; "jsonl-key", the same with an API key in the first user message;
\* "md", markdown with a description in its frontmatter; "empty".
FileKinds == {"json", "jsonl", "jsonl-key", "empty"}

Format(kind) == IF kind = "jsonl-key" THEN "jsonl" ELSE kind

\* firstUserContent.substring(0, 200), the Intent line of the summary
Intent(kind) == IF kind = "jsonl-key" THEN <<"key">> ELSE <<"txt">>

\* parser.parse(path, content): Some([summary, type]) or None for null.
parse(parser, kind) ==
  CASE parser = "claude" ->
         IF Format(kind) = "jsonl" THEN Some([summary |-> Intent(kind), type |-> "claude-session"]) ELSE None
    [] parser = "opencode" ->
         IF Format(kind) = "json" THEN Some([summary |-> Intent(kind), type |-> "opencode-session"]) ELSE None
    [] parser = "cursor" ->
         IF Format(kind) \in {"json", "jsonl"}
         THEN Some([summary |-> Intent(kind), type |-> "cursor-session"]) ELSE None
    [] parser = "codex" ->
         IF Format(kind) = "json" THEN Some([summary |-> Intent(kind), type |-> "codex-session"]) ELSE None
    [] parser = "skill" ->
         IF Format(kind) = "md" THEN Some([summary |-> Intent(kind), type |-> "claude-skill"]) ELSE None

\* extractMessagesForLLM(content).length > 0
HasMessagesForLLM(kind) == Format(kind) \in {"json", "jsonl"}

\* formatEngramAbstract(abstract, metadata)
EngramAbstract == <<"txt", "txt">>

\* for (const parser of this.parsers) if (parser.canParse(path)): the index of
\* the first parser at or after `from` that accepts the path, 0 if none does.
NextParser(path, from) ==
  IF \E i \in from..Len(Parsers) : canParse(Parsers[i], path)
  THEN CHOOSE i \in from..Len(Parsers) :
         /\ canParse(Parsers[i], path)
         /\ \A j \in from..(i - 1) : ~canParse(Parsers[j], path)
  ELSE 0

\* MemoryStore.list({ source, limit: 1 }): the rows ORDER BY created_at DESC
\* may come first; the empty set if no row has the source.
ListFirst(db, source) ==
  {id \in DOMAIN db.memories :
     /\ db.memories[id].source = source
     /\ \A other \in DOMAIN db.memories :
          db.memories[other].source = source =>
            db.memories[other].createdAt <= db.memories[id].createdAt}

\* IndexingService.emitEvent on ix = [progressMap, recentEvents]
emitEvent(ix, type, path, error) ==
  LET pushed == Append(ix.recentEvents, [type |-> type, path |-> path, error |-> error])
  IN  [progressMap |-> (path :> type) @@ ix.progressMap,
       recentEvents |-> IF Len(pushed) > MAX_RECENT_EVENTS
                        THEN SubSeq(pushed, Len(pushed) - MAX_RECENT_EVENTS + 1, Len(pushed))
                        ELSE pushed]

IX == [progressMap |-> progressMap, recentEvents |-> recentEvents]

\* Emit for call c and note the event in the call's own trace.
Emit(c, type) ==
  LET ix == emitEvent(IX, type, ingests[c].path, "")
  IN  /\ progressMap' = ix.progressMap
      /\ recentEvents' = ix.recentEvents

Traced(call, type) == [call EXCEPT !.trace = Append(@, type)]
Finished(call, ret) == [call EXCEPT !.pc = "done", !.ret = ret]

\* await this.embedder.embed(finalSummary): the call waits for the embedder,
\* which has been handed the summary as it stands.
AwaitEmbed(call) == [call EXCEPT !.pc = "embed", !.embedInput = Some(call.summary)]

\* The messages of the exceptions the collaborators raise.
ReadError == "ENOENT: no such file or directory"
SummarizeError == "LLM request failed"
EmbedError == "Embedding failed"

\* An exception is raised in call at a stage: the call's history notes it.
Raised(call, stage, message) ==
  [call EXCEPT !.raised = Append(@, [stage |-> stage, message |-> message])]

\* the catch block without its emitEvent
Caught_NoEvent(ix, call, stage, message) ==
  [ix |-> ix, call |-> Finished(Raised(call, stage, message), FALSE)]

\* catch (e) { this.emitEvent({ type: 'error', path, error: errorMsg }) } return false
Caught(ix, call, stage, message) ==
  [ix |-> emitEvent(ix, "error", call.path, message),
   call |-> Finished(Traced(Raised(call, stage, message), "error"), FALSE)]

\* ingestFile(path, event) up to its first await: emit start, start readFile.
IngestFile(paths) ==
  /\ Len(ingests) < MaxIngests
  /\ \E path \in paths, event \in {"add", "change"} :
       LET call == [path |-> path, event |-> event, pc |-> "read", parser |-> 0,
                    content |-> "", existing |-> None, summary |-> <<>>, type |-> "",
                    embedInput |-> None, raised |-> <<>>,
                    trace |-> <<"start">>, ret |-> FALSE]
           ix == emitEvent(IX, "start", path, "")
       IN  /\ ingests' = Append(ingests, call)
           /\ progressMap' = ix.progressMap
           /\ recentEvents' = ix.recentEvents
  /\ last' = Quiet("ingestFile")
  /\ UNCHANGED <<memories, memories_vec, sync_events, mutations, calls, cryptoKey, nextId, clock,
                 llmConfigured, syncVars, cryptoVars, embeddingVars, toolVars, sanitizerVars, linkVars>>

\* readFile settles: it rejects (the catch emits error), or it resolves and
\* the loop runs to the first parser that accepts the path.
ReadFileSettles ==
  \E c \in 1..Len(ingests) :
    /\ ingests[c].pc = "read"
    /\ \/ LET e == Caught(IX, ingests[c], "read", ReadError)
          IN  /\ ingests' = [ingests EXCEPT ![c] = e.call]
              /\ progressMap' = e.ix.progressMap
              /\ recentEvents' = e.ix.recentEvents
       \/ \E kind \in FileKinds :
            LET i == NextParser(ingests[c].path, 1)
            IN  /\ ingests' = [ingests EXCEPT ![c] =
                     IF i = 0 THEN Finished([@ EXCEPT !.content = kind], FALSE)
                     ELSE [@ EXCEPT !.content = kind, !.pc = "parse", !.parser = i]]
                /\ UNCHANGED <<progressMap, recentEvents>>
    /\ last' = Quiet("ingestFile")
    /\ UNCHANGED <<memories, memories_vec, sync_events, mutations, calls, cryptoKey, nextId, clock,
                   llmConfigured, syncVars, cryptoVars, embeddingVars, toolVars, sanitizerVars, linkVars>>

\* parser.parse settles. With a result: emit parsed, look the path up in the
\* store, then await the summarizer or the embedder. With null: the loop goes
\* on to the next parser that accepts the path, and ends without one.
ParseSettles ==
  \E c \in 1..Len(ingests) :
    /\ ingests[c].pc = "parse"
    /\ LET call == ingests[c]
           result == parse(Parsers[call.parser], call.content)
           i == NextParser(call.path, call.parser + 1)
       IN  IF result.some
           THEN /\ \E existing \in IF ListFirst(DB, call.path) = {} THEN {None}
                                   ELSE {Some(id) : id \in ListFirst(DB, call.path)} :
                     LET parsed == [Traced(call, "parsed") EXCEPT
                                     !.existing = existing, !.summary = result.val.summary,
                                     !.type = result.val.type]
                     IN  ingests' = [ingests EXCEPT ![c] =
                           IF llmConfigured /\ HasMessagesForLLM(call.content)
                           THEN [parsed EXCEPT !.pc = "summarize"] ELSE AwaitEmbed(parsed)]
                /\ Emit(c, "parsed")
           ELSE /\ ingests' = [ingests EXCEPT ![c] =
                     IF i = 0 THEN Finished(@, FALSE) ELSE [@ EXCEPT !.parser = i]]
                /\ UNCHANGED <<progressMap, recentEvents>>
    /\ last' = Quiet("ingestFile")
    /\ UNCHANGED <<memories, memories_vec, sync_events, mutations, calls, cryptoKey, nextId, clock,
                   llmConfigured, syncVars, cryptoVars, embeddingVars, toolVars, sanitizerVars, linkVars>>

\* llmService.summarizeSession settles: the abstract replaces the summary, or
\* the rejection is caught and the basic summary stays.
SummarizeSettles ==
  \E c \in 1..Len(ingests) :
    /\ ingests[c].pc = "summarize"
    /\ \/ ingests' = [ingests EXCEPT ![c] = AwaitEmbed([@ EXCEPT !.summary = EngramAbstract])]
       \/ ingests' = [ingests EXCEPT ![c] = AwaitEmbed(Raised(@, "summarize", SummarizeError))]
    /\ last' = Quiet("ingestFile")
    /\ UNCHANGED <<memories, memories_vec, sync_events, mutations, calls, cryptoKey, nextId, clock,
                   progressMap, recentEvents, llmConfigured, syncVars, cryptoVars, embeddingVars, toolVars, sanitizerVars, linkVars>>

\* What ingestFile keeps of a store call r: [db, terminal event, return value,
\* message of what the store threw].
Outcome(r) ==
  [db |-> r.db, type |-> IF r.ok THEN "stored" ELSE "error", ret |-> r.ok, error |-> r.error]

\* What ingestFile does with the store once the vector is there: update on a
\* change of an indexed path, nothing on an add of one, create otherwise.
StoreSummary(call, vector) ==
  IF call.existing.some
  THEN IF call.event = "change"
       THEN Outcome(update(DB, cryptoKey, call.existing.val,
                           [content |-> Some(call.summary),
                            tags |-> Some(<<"session-index", call.type>>)],
                           Some(vector)))
       ELSE [db |-> DB, type |-> "skipped", ret |-> FALSE, error |-> ""]
  ELSE Outcome(create(DB, cryptoKey, nextId, clock,
                      [content |-> call.summary, tags |-> Some(<<"session-index", call.type>>),
                       source |-> call.path],
                      vector))

\* The terminal event of a call whose store call had outcome r: [ix, call].
Stored(ix, call, r) ==
  IF r.type = "error" THEN Caught(ix, call, "store", r.error)
  ELSE [ix |-> emitEvent(ix, r.type, call.path, ""),
        call |-> Finished(Traced(call, r.type), r.ret)]

\* Call c has ended as e = [ix, call], leaving the database db.
Ended(c, db, e) ==
  /\ SetDB(db)
  /\ nextId' = IF nextId \in DOMAIN db.memories THEN nextId + 1 ELSE nextId
  /\ ingests' = [ingests EXCEPT ![c] = e.call]
  /\ progressMap' = e.ix.progressMap
  /\ recentEvents' = e.ix.recentEvents

\* embed resolved in call c: emit embedded, then the store call with outcome r.
EmbedResolves(c, r) ==
  Ended(c, r.db, Stored(emitEvent(IX, "embedded", ingests[c].path, ""),
                        Traced(ingests[c], "embedded"), r))

\* The vectors the embedder resolves with: of the table's dimension, or of
\* another model's.
IndexingVectors == {GoodVector, BadVector}

\* embedder.embed settles: it rejects (error), or it resolves: emit embedded,
\* then update, skip or create, and emit the terminal event.
EmbedSettles ==
  \E c \in 1..Len(ingests) :
    /\ ingests[c].pc = "embed"
    /\ \/ Ended(c, DB, Caught(IX, ingests[c], "embed", EmbedError))
       \/ \E vector \in IndexingVectors : EmbedResolves(c, StoreSummary(ingests[c], vector))
    /\ last' = Quiet("ingestFile")
    /\ UNCHANGED <<cryptoKey, clock, llmConfigured, syncVars, cryptoVars, embeddingVars, toolVars, sanitizerVars, linkVars>>

IndexingPaths == {ClaudePath, MultiPath, OtherPath}

IndexingNext ==
  \/ IngestFile(IndexingPaths)
  \/ ReadFileSettles
  \/ ParseSettles
  \/ SummarizeSettles
  \/ EmbedSettles
  \/ Delete


\* ------------------------------------------- SyncEngine, SecretsSyncEngine

\* How many HTTP requests one run issues, and the cursors a server hands out.
MaxFetches == 2
MaxCursor == 1
\* How many secrets one run inserts.
MaxSecretIds == 2
MIN_BLIND_INDEX_KEY_LENGTH == 32
VaultKeyLength == 32

\* new SyncEngine()
NewSyncEngine ==
  [config |-> FALSE, blindIndexKey |-> 0, isConnected |-> FALSE, lastSyncAt |-> None,
   syncCursor |-> 0]

\* SecretsSyncEngine.loadSyncCursor
loadSyncCursor(state) == IF state.some THEN state.val ELSE 0

\* new SecretsSyncEngine(db)
NewSecretsSyncEngine(state) ==
  [config |-> FALSE, vaultKey |-> 0, blindIndexKey |-> 0, isConnected |-> FALSE,
   syncCursor |-> loadSyncCursor(state)]

\* Both engines, the tables of the secrets engine and the network, as one value.
NET ==
  [sync |-> syncEngine, secrets |-> secretsEngine,
   local_secret_sync_events |-> local_secret_sync_events,
   secret_sync_state |-> secret_sync_state, pending |-> pending, fetchCount |-> fetchCount,
   secretsTable |-> secrets, secretStore |-> secretStore, secretUuids |-> secretUuids,
   latestSecret |-> latestSecret, remote |-> remote_sync_events, pulled |-> pulled]

SetNET(net) ==
  /\ syncEngine' = net.sync
  /\ secretsEngine' = net.secrets
  /\ local_secret_sync_events' = net.local_secret_sync_events
  /\ secret_sync_state' = net.secret_sync_state
  /\ pending' = net.pending
  /\ fetchCount' = net.fetchCount
  /\ secrets' = net.secretsTable
  /\ secretStore' = net.secretStore
  /\ secretUuids' = net.secretUuids
  /\ latestSecret' = net.latestSecret
  /\ remote_sync_events' = net.remote
  /\ pulled' = net.pulled

Resolved(net) == [net |-> net, ok |-> TRUE, error |-> ""]
Rejected(net, error) == [net |-> net, ok |-> FALSE, error |-> error]

\* A request in flight: the call that awaits it and what that call holds. Of
\* a pull: the argument it was called with (sinceCursor), the cursor it sent
\* (since = sinceCursor ?? this.syncCursor), the response's events, cursor and
\* hasMore, and its blobs so far; of pullAll also allBlobs, the cursor its
\* first pull sent (start) and the events of its pulls so far (allEvents).
Request(op, secretId, encryptedData, checksum, blindId, all) ==
  [op |-> op, secretId |-> secretId, encryptedData |-> encryptedData, checksum |-> checksum,
   blindId |-> blindId, all |-> all, cursor |-> 0, hasMore |-> FALSE, caller |-> "",
   sinceCursor |-> None, since |-> 0, start |-> 0, events |-> <<>>, blobs |-> <<>>,
   blobUrls |-> <<>>, allBlobs |-> <<>>, allEvents |-> <<>>]

\* fetch(...): one more request on the network
fetch(net, request) ==
  [net EXCEPT !.pending = ((net.fetchCount + 1) :> request) @@ @, !.fetchCount = @ + 1]

\* The response arrived: the awaiting call goes on.
Settled(net, id) == [net EXCEPT !.pending = Without(@, id)]

\* only the configuration tested
NotConnected_ConfigOnly(engine) == ~engine.config

\* if (!this.isConnected || !this.config)
NotConnected(engine) == ~engine.isConnected \/ ~engine.config

\* computeBlindId: HMAC of the name under the blind index key
computeBlindId(blindIndexKey, name) == <<"hmac", blindIndexKey, name>>

\* ---- SyncEngine

SyncEngine_configure(net) == Resolved([net EXCEPT !.sync.config = TRUE])

SyncEngine_configureBlindIndex(net, keyLength) ==
  IF keyLength < MIN_BLIND_INDEX_KEY_LENGTH
  THEN Rejected(net, "Blind index key must be at least 32 bytes")
  ELSE Resolved([net EXCEPT !.sync.blindIndexKey = keyLength])

SyncEngine_connect(net) ==
  IF ~net.sync.config THEN Rejected(net, "Sync engine not configured")
  ELSE Resolved([net EXCEPT !.sync.isConnected = TRUE])

SyncEngine_disconnect(net) == Resolved([net EXCEPT !.sync.isConnected = FALSE])

\* SyncEngine.push up to its await
push(net, blindId) ==
  IF NotConnected(net.sync) THEN Rejected(net, "Not connected to sync service")
  ELSE Resolved(fetch(net, Request("push", "", None, NullChecksum, blindId, FALSE)))

pushWithBlindIndex(net, memoryId) ==
  IF net.sync.blindIndexKey = 0
  THEN Rejected(net, "Blind index not configured. Call configureBlindIndex() first.")
  ELSE push(net, Some(computeBlindId(net.sync.blindIndexKey, memoryId)))

\* SyncEngine.pull up to its await, called by a caller that holds `held`
\* (pullAll's allBlobs); `all` says that pullAll is the caller.
pullFrom(net, all, held) ==
  IF NotConnected(net.sync) THEN Rejected(net, "Not connected to sync service")
  ELSE Resolved(fetch(net, [held EXCEPT !.op = "pull", !.all = all,
                                        !.since = IF held.sinceCursor.some
                                                  THEN held.sinceCursor.val
                                                  ELSE net.sync.syncCursor,
                                        !.events = <<>>, !.blobs = <<>>, !.blobUrls = <<>>]))

\* SyncEngine.pull(sinceCursor?) up to its await; `all` says that pullAll is
\* the caller.
pull(net, all, sinceCursor) ==
  pullFrom(net, all, [Request("pull", "", None, NullChecksum, None, all) EXCEPT
                        !.sinceCursor = sinceCursor, !.start = net.sync.syncCursor])

\* SyncEngine.pullAll up to its first await
pullAll(net) == pull(net, TRUE, None)

\* What a call handed back when it returned.
Handed(net, result) == [net EXCEPT !.pulled = Append(@, result)]

\* What pull returns: the events, and the inline blobs followed by the
\* fetched ones.
pullResult(request, fetchedBlobs) ==
  [op |-> "pull", since |-> request.since, events |-> request.events,
   blobs |-> request.blobs \o fetchedBlobs,
   cursor |-> request.cursor, hasMore |-> request.hasMore]

\* the loop left after its first pull
pullDone_OnePull(net, request, fetchedBlobs, now) ==
  LET moved == [net EXCEPT !.sync.syncCursor = request.cursor, !.sync.lastSyncAt = Some(now)]
      result == pullResult(request, fetchedBlobs)
  IN  Resolved(Handed(moved, IF request.all
                             THEN [result EXCEPT !.op = "pullAll", !.since = request.start]
                             ELSE result))

\* pull after the list and every blob arrived: the cursor moves; pullAll
\* keeps the blobs and pulls again while the server has more.
pullDone(net, request, fetchedBlobs, now) ==
  LET moved == [net EXCEPT !.sync.syncCursor = request.cursor, !.sync.lastSyncAt = Some(now)]
      result == pullResult(request, fetchedBlobs)
      held == [request EXCEPT !.allBlobs = @ \o result.blobs,
                              !.allEvents = @ \o result.events]
  IN  IF ~request.all THEN Resolved(Handed(moved, result))
      ELSE IF result.hasMore THEN pullFrom(moved, TRUE, held)
      ELSE Resolved(Handed(moved, [op |-> "pullAll", since |-> request.start,
                                   events |-> held.allEvents, blobs |-> held.allBlobs,
                                   cursor |-> request.cursor, hasMore |-> FALSE]))

\* pull when the response to its list request arrives; Promise.all over the
\* signed URLs is one more wait.
pullResponse(net, id, resOk, data, now) ==
  LET request == [net.pending[id] EXCEPT !.cursor = data.cursor, !.hasMore = data.hasMore,
                                         !.events = data.events, !.blobs = data.blobs,
                                         !.blobUrls = data.blobUrls]
      net1 == Settled(net, id)
  IN  IF ~resOk THEN Rejected(net1, "Pull failed")
      ELSE IF data.blobUrls # <<>>
           THEN Resolved(fetch(net1, [request EXCEPT !.op = "blob"]))
           ELSE pullDone(net1, request, <<>>, now)

\* pull when the signed-URL fetches settle
blobResponse(net, id, resOk, now) ==
  IF ~resOk THEN Rejected(Settled(net, id), "Failed to fetch blob")
  ELSE pullDone(Settled(net, id), net.pending[id], net.pending[id].blobUrls, now)

\* a failed push that also drops the connection
pushResponse_Disconnects(net, id, resOk) ==
  IF ~resOk THEN Rejected([Settled(net, id) EXCEPT !.sync.isConnected = FALSE], "Push failed")
  ELSE Resolved(Settled(net, id))

\* push when the response arrives
pushResponse(net, id, resOk) ==
  IF ~resOk THEN Rejected(Settled(net, id), "Push failed") ELSE Resolved(Settled(net, id))

SyncEngine_updateSyncCursor(net, cursor, now) ==
  Resolved([net EXCEPT !.sync.syncCursor = cursor, !.sync.lastSyncAt = Some(now)])

\* ---- SecretsSyncEngine

SecretsSyncEngine_configure(net) == Resolved([net EXCEPT !.secrets.config = TRUE])

setVaultKey(net, key) ==
  IF key.length # VaultKeyLength THEN Rejected(net, "Vault key must be 32 bytes (256 bits)")
  ELSE Resolved([net EXCEPT !.secrets.vaultKey = key.id])

SecretsSyncEngine_configureBlindIndex(net, keyLength) ==
  IF keyLength < MIN_BLIND_INDEX_KEY_LENGTH
  THEN Rejected(net, "Blind index key must be at least 32 bytes")
  ELSE Resolved([net EXCEPT !.secrets.blindIndexKey = keyLength])

SecretsSyncEngine_connect(net) ==
  IF ~net.secrets.config THEN Rejected(net, "Secrets sync engine not configured")
  ELSE Resolved([net EXCEPT !.secrets.isConnected = TRUE])

SecretsSyncEngine_disconnect(net) == Resolved([net EXCEPT !.secrets.isConnected = FALSE])

\* the maximum itself, not its successor
getNextLocalSequence_NoIncrement(net) == MaxSeq(net.local_secret_sync_events)

getNextLocalSequence(net) == MaxSeq(net.local_secret_sync_events) + 1

recordLocalEvent(net, eventType, secretId, encryptedData, checksum, blindId) ==
  [net EXCEPT !.local_secret_sync_events =
     Append(@, [eventType |-> eventType, secretId |-> secretId, encryptedData |-> encryptedData,
                checksum |-> checksum, blindId |-> blindId,
                sequenceNum |-> getNextLocalSequence(net)])]

saveSyncCursor(net, cursor) == [net EXCEPT !.secret_sync_state = Some(cursor)]

\* pushSecret up to its await
pushSecret(net, secretId, keyName, value) ==
  IF net.secrets.vaultKey = 0 THEN Rejected(net, "Vault key not set")
  ELSE IF NotConnected(net.secrets) THEN Rejected(net, "Not connected to sync service")
  ELSE IF net.secrets.blindIndexKey = 0 THEN Rejected(net, "Blind index not configured")
  ELSE LET encrypted == encrypt(net.secrets.vaultKey, value)
       IN  IF ~encrypted.ok THEN Rejected(net, encrypted.error)
           ELSE Resolved(fetch(net, Request("pushSecret", secretId, Some(encrypted.val),
                                            sha256(value),
                                            Some(computeBlindId(net.secrets.blindIndexKey, keyName)),
                                            FALSE)))

\* deleteSecret up to its await
deleteSecret(net, secretId, keyName) ==
  IF NotConnected(net.secrets) THEN Rejected(net, "Not connected to sync service")
  ELSE IF net.secrets.blindIndexKey = 0 THEN Rejected(net, "Blind index not configured")
  ELSE Resolved(fetch(net, Request("deleteSecret", secretId, None, NullChecksum,
                                   Some(computeBlindId(net.secrets.blindIndexKey, keyName)),
                                   FALSE)))

\* the journal row written whatever the response
secretPushResponse_RecordAlways(net, id, resOk) ==
  LET request == net.pending[id]
  IN  [net |-> recordLocalEvent(Settled(net, id),
                                IF request.op = "pushSecret" THEN "ADD" ELSE "DELETE",
                                request.secretId, request.encryptedData, request.checksum,
                                request.blindId),
       ok |-> resOk, error |-> IF resOk THEN "" ELSE "Push failed"]

\* pushSecret and deleteSecret when the response arrives
secretPushResponse(net, id, resOk) ==
  LET request == net.pending[id]
      net1 == Settled(net, id)
  IN  IF ~resOk
      THEN Rejected(net1, IF request.op = "pushSecret" THEN "Push failed" ELSE "Delete failed")
      ELSE Resolved(recordLocalEvent(net1, IF request.op = "pushSecret" THEN "ADD" ELSE "DELETE",
                                     request.secretId, request.encryptedData, request.checksum,
                                     request.blindId))

\* pullSecrets up to its await
pullSecrets(net) ==
  IF net.secrets.vaultKey = 0 THEN Rejected(net, "Vault key not set")
  ELSE IF NotConnected(net.secrets) THEN Rejected(net, "Not connected to sync service")
  ELSE Resolved(fetch(net, [Request("pullSecrets", "", None, NullChecksum, None, FALSE) EXCEPT
                             !.since = net.secrets.syncCursor]))

\* The loop of pullSecrets over data.events: "" or the message it throws.
RECURSIVE decryptEvents(_, _)
decryptEvents(vaultKey, events) ==
  IF events = <<>> THEN ""
  ELSE LET event == Head(events)
       IN  IF event.eventType = "DELETE" THEN decryptEvents(vaultKey, Tail(events))
           ELSE IF ~event.encryptedData.some THEN "Missing encrypted data for secret"
           ELSE LET decrypted == decrypt(vaultKey, event.encryptedData.val)
                IN  IF ~decrypted.ok THEN decrypted.error
                    ELSE IF event.checksum # NullChecksum /\ sha256(decrypted.val) # event.checksum
                         THEN "Checksum mismatch for secret"
                         ELSE decryptEvents(vaultKey, Tail(events))

\* the cursor moved and saved before the events are decrypted
pullSecretsResponse_CursorFirst(net, id, resOk, data) ==
  LET net1 == Settled(net, id)
      thrown == decryptEvents(net.secrets.vaultKey, data.events)
      moved == saveSyncCursor([net1 EXCEPT !.secrets.syncCursor = data.cursor], data.cursor)
  IN  IF ~resOk THEN Rejected(net1, "Pull failed")
      ELSE IF thrown # "" THEN Rejected(moved, thrown)
      ELSE Resolved(moved)

\* pullSecrets when the response arrives
pullSecretsResponse(net, id, resOk, data) ==
  LET net1 == Settled(net, id)
      thrown == decryptEvents(net.secrets.vaultKey, data.events)
  IN  IF ~resOk THEN Rejected(net1, "Pull failed")
      ELSE IF thrown # "" THEN Rejected(net1, thrown)
      ELSE Resolved(saveSyncCursor([net1 EXCEPT !.secrets.syncCursor = data.cursor], data.cursor))

\* authorizeDevice up to its await
authorizeDevice(net) ==
  IF net.secrets.vaultKey = 0 THEN Rejected(net, "Vault key not set")
  ELSE IF NotConnected(net.secrets) THEN Rejected(net, "Not connected to sync service")
  ELSE Resolved(fetch(net, Request("authorizeDevice", "", None, NullChecksum, None, FALSE)))

\* revokeDevice up to its await
revokeDevice(net) ==
  IF NotConnected(net.secrets) THEN Rejected(net, "Not connected to sync service")
  ELSE Resolved(fetch(net, Request("revokeDevice", "", None, NullChecksum, None, FALSE)))

\* authorizeDevice and revokeDevice when the response arrives
deviceResponse(net, id, resOk) ==
  IF ~resOk
  THEN Rejected(Settled(net, id), IF net.pending[id].op = "authorizeDevice"
                                  THEN "Authorization failed" ELSE "Revoke failed")
  ELSE Resolved(Settled(net, id))

SecretsSyncEngine_updateSyncCursor(net, cursor) ==
  Resolved(saveSyncCursor([net EXCEPT !.secrets.syncCursor = cursor], cursor))

\* ---- SecretStore

\* The master key of the CryptoService the secret store is built with.
SecretStoreKey == 1

\* new SecretStore(db, crypto)
NewSecretStore == [syncEngine |-> FALSE, syncEnabled |-> FALSE]

\* SecretStore.isSyncEnabled
isSyncEnabled(store) == store.syncEnabled /\ store.syncEngine

setSyncEngine(net) == Resolved([net EXCEPT !.secretStore.syncEngine = TRUE])

enableSync(net, enabled) == Resolved([net EXCEPT !.secretStore.syncEnabled = enabled])

\* The call awaits the request the engine has just issued.
AwaitedBy(net, caller) == [net EXCEPT !.pending[net.fetchCount].caller = caller]

\* the await with no catch around it
Mirror_NoCatch(local, pushed, caller) ==
  IF pushed.ok THEN Resolved(AwaitedBy(pushed.net, caller)) ELSE Rejected(local, pushed.error)

\* await this.syncEngine.pushSecret / deleteSecret inside try/catch: a request
\* to await, or a rejection that is logged.
Mirror(local, pushed, caller) ==
  IF pushed.ok THEN Resolved(AwaitedBy(pushed.net, caller)) ELSE Resolved(local)

\* SELECT ... FROM secrets WHERE key_name = ?
SecretRows(net, key) == {row \in net.secretsTable : row.key_name = key}

\* INSERT INTO secrets: id is the primary key and key_name is UNIQUE.
InsertSecret(net, row) ==
  IF \E other \in net.secretsTable : other.id = row.id \/ other.key_name = row.key_name
  THEN [ok |-> FALSE, error |-> "UNIQUE constraint failed"]
  ELSE [ok |-> TRUE, net |-> [net EXCEPT !.secretsTable = @ \cup {row}]]

\* the UPDATE leaving encrypted_value as it was
UpdateSecret_KeepValue(net, key, encrypted, description, now) ==
  [net EXCEPT !.secretsTable =
     {IF row.key_name = key
      THEN [row EXCEPT !.description = IF description.some THEN description ELSE @,
                       !.updated_at = now]
      ELSE row : row \in @}]

\* UPDATE secrets SET ... description = COALESCE(?, description) WHERE key_name = ?
UpdateSecret(net, key, encrypted, description, now) ==
  [net EXCEPT !.secretsTable =
     {IF row.key_name = key
      THEN [row EXCEPT !.encrypted_value = encrypted,
                       !.description = IF description.some THEN description ELSE @,
                       !.updated_at = now]
      ELSE row : row \in @}]

\* SecretStore.set up to its await; existing is the row the SELECT returned,
\* Some(row) or None.
SecretStore_set(net, key, value, description, now, existing) ==
  LET e == encrypt(SecretStoreKey, value)
      secretId == IF existing.some THEN existing.val.id ELSE net.secretUuids + 1
      inserted == InsertSecret([net EXCEPT !.secretUuids = @ + 1],
                               [id |-> secretId, key_name |-> key, encrypted_value |-> e.val,
                                description |-> description, created_at |-> now,
                                updated_at |-> now])
      written == IF existing.some
                 THEN [ok |-> TRUE, net |-> UpdateSecret(net, key, e.val, description, now)]
                 ELSE inserted
      local == [written.net EXCEPT !.latestSecret = (key :> Some(value)) @@ @]
  IN  IF ~e.ok THEN Rejected(net, e.error)
      ELSE IF ~written.ok THEN Rejected(net, written.error)
      ELSE IF isSyncEnabled(net.secretStore)
           THEN Mirror(local, pushSecret(local, secretId, key, value), "SecretStore.set")
           ELSE Resolved(local)

\* What .get(key) may return for a SELECT by key_name: a row, or None.
SelectSecret(net, key) ==
  IF SecretRows(net, key) = {} THEN {None} ELSE {Some(row) : row \in SecretRows(net, key)}

\* SecretStore.get on the row the SELECT returned: Some(value), None for null,
\* or the error thrown
SecretStore_get(row) ==
  IF ~row.some THEN [ok |-> TRUE, ret |-> None]
  ELSE LET d == decrypt(SecretStoreKey, row.val.encrypted_value)
       IN  IF d.ok THEN [ok |-> TRUE, ret |-> Some(d.val)] ELSE [ok |-> FALSE, ret |-> None]

\* SecretStore.delete up to its await; existing as in set
SecretStore_delete(net, key, existing) ==
  IF ~existing.some THEN Resolved(net)
  ELSE LET local == [net EXCEPT !.secretsTable = @ \ SecretRows(net, key),
                                !.latestSecret = (key :> None) @@ @]
       IN  IF isSyncEnabled(net.secretStore)
           THEN Mirror(local, deleteSecret(local, existing.val.id, key), "SecretStore.delete")
           ELSE Resolved(local)

\* set and delete when the mirrored request settles: the catch swallows what
\* the engine throws.
mirrorResponse(net, id, resOk) == Resolved(secretPushResponse(net, id, resOk).net)

SyncInit ==
  /\ syncEngine = NewSyncEngine
  /\ secret_sync_state = None
  /\ secretsEngine = NewSecretsSyncEngine(None)
  /\ local_secret_sync_events = <<>>
  /\ pending = EmptyRows
  /\ fetchCount = 0
  /\ secrets = {}
  /\ secretStore = NewSecretStore
  /\ secretUuids = 0
  /\ latestSecret = EmptyRows
  /\ remote_sync_events = <<>>
  /\ pulled = <<>>

\* One call on an engine, or the continuation of one after its await.
Move(op, r) ==
  /\ SetNET(r.net)
  /\ last' = Last(op, r)
  /\ UNCHANGED <<storeData, indexingVars, cryptoVars, embeddingVars, toolVars, sanitizerVars, linkVars>>

\* The same within the requests and the secret ids of one run.
Step(op, r) ==
  /\ r.net.fetchCount <= MaxFetches
  /\ r.net.secretUuids <= MaxSecretIds
  /\ Move(op, r)

\* Room left for one more request.
Budget == fetchCount < MaxFetches

Awaiting(ops) == {id \in DOMAIN pending : pending[id].op \in ops}

SyncConfigure == Step("SyncEngine.configure", SyncEngine_configure(NET))

SyncConfigureBlindIndex ==
  \E keyLength \in {16, 32} :
    Step("SyncEngine.configureBlindIndex", SyncEngine_configureBlindIndex(NET, keyLength))

SyncConnect == Step("SyncEngine.connect", SyncEngine_connect(NET))

SyncDisconnect == Step("SyncEngine.disconnect", SyncEngine_disconnect(NET))

Push == Step("SyncEngine.push", push(NET, None))

PushWithBlindIndex == Step("SyncEngine.pushWithBlindIndex", pushWithBlindIndex(NET, 1))

Pull ==
  \E sinceCursor \in Opt(0..MaxCursor) : Step("SyncEngine.pull", pull(NET, FALSE, sinceCursor))

PullAll == Step("SyncEngine.pullAll", pullAll(NET))

PushResponds ==
  \E id \in Awaiting({"push"}), resOk \in BOOLEAN :
    Step("SyncEngine.push", pushResponse(NET, id, resOk))

\* What a server answers to a pull: it has more, and it hands out signed
\* URLs, only while the run has requests left.
PullData ==
  [cursor : 0..MaxCursor,
   hasMore : IF Budget THEN BOOLEAN ELSE {FALSE},
   events : {<<>>},
   blobs : {<<>>},
   blobUrls : IF Budget THEN {<<>>, <<1>>} ELSE {<<>>}]

PullResponds ==
  \E id \in Awaiting({"pull"}), resOk \in BOOLEAN, data \in PullData :
    Step(IF pending[id].all THEN "SyncEngine.pullAll" ELSE "SyncEngine.pull",
         pullResponse(NET, id, resOk, data, clock))

BlobResponds ==
  \E id \in Awaiting({"blob"}), resOk \in BOOLEAN :
    Step(IF pending[id].all THEN "SyncEngine.pullAll" ELSE "SyncEngine.pull",
         blobResponse(NET, id, resOk, clock))

SyncUpdateSyncCursor ==
  \E cursor \in 0..MaxCursor :
    Step("SyncEngine.updateSyncCursor", SyncEngine_updateSyncCursor(NET, cursor, clock))

\* The process starts again: new SyncEngine().
SyncRestart ==
  /\ Awaiting({"push", "pull", "blob"}) = {}
  /\ Step("new SyncEngine", Resolved([NET EXCEPT !.sync = NewSyncEngine]))

SecretsConfigure == Step("SecretsSyncEngine.configure", SecretsSyncEngine_configure(NET))

SetVaultKey(keys) ==
  \E key \in keys : Step("SecretsSyncEngine.setVaultKey", setVaultKey(NET, key))

SecretsConfigureBlindIndex ==
  \E keyLength \in {16, 32} :
    Step("SecretsSyncEngine.configureBlindIndex",
         SecretsSyncEngine_configureBlindIndex(NET, keyLength))

SecretsConnect == Step("SecretsSyncEngine.connect", SecretsSyncEngine_connect(NET))

SecretsDisconnect == Step("SecretsSyncEngine.disconnect", SecretsSyncEngine_disconnect(NET))

PushSecret(values) ==
  \E value \in values :
    Step("SecretsSyncEngine.pushSecret", pushSecret(NET, "s1", "API_KEY", value))

DeleteSecret == Step("SecretsSyncEngine.deleteSecret", deleteSecret(NET, "s1", "API_KEY"))

PullSecrets == Step("SecretsSyncEngine.pullSecrets", pullSecrets(NET))

AuthorizeDevice == Step("SecretsSyncEngine.authorizeDevice", authorizeDevice(NET))

RevokeDevice == Step("SecretsSyncEngine.revokeDevice", revokeDevice(NET))

SecretPushResponds ==
  \E id \in Awaiting({"pushSecret", "deleteSecret"}), resOk \in BOOLEAN :
    /\ pending[id].caller = ""
    /\ Step("SecretsSyncEngine." \o pending[id].op, secretPushResponse(NET, id, resOk))

\* The event lists a server answers to pullSecrets: none, a tombstone, a
\* secret under each of the keys, one with its data missing, one whose
\* checksum is another text's.
PulledSecretEvents(keys, values) ==
  LET event(type, data, checksum) ==
        [secretId |-> "s1", eventType |-> type, encryptedData |-> data, checksum |-> checksum]
  IN  {<<>>, <<event("DELETE", None, NullChecksum)>>, <<event("ADD", None, NullChecksum)>>}
      \cup {<<event("ADD", Some(encrypt(k, v).val), sha256(c))>> :
              k \in keys, v \in values, c \in values}

PullSecretsResponds(keys, values) ==
  \E id \in Awaiting({"pullSecrets"}), resOk \in BOOLEAN, cursor \in 0..MaxCursor,
     events \in PulledSecretEvents(keys, values) :
    Step("SecretsSyncEngine.pullSecrets",
         pullSecretsResponse(NET, id, resOk, [events |-> events, cursor |-> cursor]))

DeviceResponds ==
  \E id \in Awaiting({"authorizeDevice", "revokeDevice"}), resOk \in BOOLEAN :
    Step("SecretsSyncEngine." \o pending[id].op, deviceResponse(NET, id, resOk))

SecretsUpdateSyncCursor ==
  \E cursor \in 0..MaxCursor :
    Step("SecretsSyncEngine.updateSyncCursor", SecretsSyncEngine_updateSyncCursor(NET, cursor))

\* The process starts again on the same database: new SecretsSyncEngine(db).
SecretsRestart ==
  /\ Awaiting({"pushSecret", "deleteSecret", "pullSecrets", "authorizeDevice", "revokeDevice"}) = {}
  /\ Step("new SecretsSyncEngine",
          Resolved([NET EXCEPT !.secrets = NewSecretsSyncEngine(secret_sync_state)]))

\* ---- SecretStore calls

SetSyncEngine == Step("SecretStore.setSyncEngine", setSyncEngine(NET))

EnableSync == \E enabled \in BOOLEAN : Step("SecretStore.enableSync", enableSync(NET, enabled))

SecretSet(keys, values, descriptions) ==
  \E key \in keys, value \in values, description \in descriptions :
    \E existing \in SelectSecret(NET, key) :
      Step("SecretStore.set", SecretStore_set(NET, key, value, description, clock, existing))

SecretDelete(keys) ==
  \E key \in keys :
    \E existing \in SelectSecret(NET, key) :
      Step("SecretStore.delete", SecretStore_delete(NET, key, existing))

MirrorResponds ==
  \E id \in Awaiting({"pushSecret", "deleteSecret"}), resOk \in BOOLEAN :
    /\ pending[id].caller # ""
    /\ Step(pending[id].caller, mirrorResponse(NET, id, resOk))

SecretKeys == {"API_KEY", "DB_PASS"}
SecretValues == {<<"txt">>, <<"txt", "txt">>, <<"blk">>}
SecretDescriptions == {None, Some("d")}

MirrorKeys == {"API_KEY", "DB_PASS"}
MirrorValues == {<<"txt">>, <<"blk">>}

SyncVaultKeys == {[id |-> 1, length |-> 32], [id |-> 1, length |-> 16]}
SyncSecretValues == {<<"txt">>, <<"blk">>}
SyncPeerKeys == {1, 2}
SyncPeerValues == {<<"txt">>, <<"txt", "txt">>}

\* The secret store on its own.
SecretsNext ==
  \/ SecretSet(SecretKeys, SecretValues, SecretDescriptions)
  \/ SecretDelete(SecretKeys)
  \/ Tick

\* The secret store mirrored to its sync engine.
MirrorNext ==
  \/ SetSyncEngine
  \/ EnableSync
  \/ SecretSet(MirrorKeys, MirrorValues, {None})
  \/ SecretDelete(MirrorKeys)
  \/ MirrorResponds
  \/ SecretsConfigure
  \/ SetVaultKey(SyncVaultKeys)
  \/ SecretsConfigureBlindIndex
  \/ SecretsConnect
  \/ SecretsDisconnect

SyncEngineNext ==
  \/ SyncConfigure
  \/ SyncConfigureBlindIndex
  \/ SyncConnect
  \/ SyncDisconnect
  \/ Push
  \/ PushWithBlindIndex
  \/ Pull
  \/ PullAll
  \/ PushResponds
  \/ PullResponds
  \/ BlobResponds
  \/ SyncUpdateSyncCursor
  \/ SyncRestart

SecretsSyncEngineNext ==
  \/ SecretsConfigure
  \/ SetVaultKey(SyncVaultKeys)
  \/ SecretsConfigureBlindIndex
  \/ SecretsConnect
  \/ SecretsDisconnect
  \/ PushSecret(SyncSecretValues)
  \/ DeleteSecret
  \/ PullSecrets
  \/ AuthorizeDevice
  \/ RevokeDevice
  \/ SecretPushResponds
  \/ PullSecretsResponds(SyncPeerKeys, SyncPeerValues)
  \/ DeviceResponds
  \/ SecretsUpdateSyncCursor
  \/ SecretsRestart

\* The engines share no field and no table, so a run drives one of them
\* while the other is as constructed.
SyncEngineIdle == syncEngine = NewSyncEngine /\ Awaiting({"push", "pull", "blob"}) = {}

SecretsSyncEngineIdle ==
  /\ secretsEngine = NewSecretsSyncEngine(None)
  /\ secret_sync_state = None
  /\ local_secret_sync_events = <<>>
  /\ DOMAIN pending = Awaiting({"push", "pull", "blob"})

SyncNext ==
  \/ SecretsSyncEngineIdle /\ SyncEngineNext
  \/ SyncEngineIdle /\ SecretsSyncEngineNext


\* ------------------------------------------------- DLPSanitizer on its own

\* The texts handed to sanitize and hasSecrets: up to MaxSanitizerChunks
\* chunks of plain text, API keys and private key blocks, and a database URL
\* whose password is a private key block.
MaxSanitizerChunks == 3
SanitizerTexts ==
  UNION {[1..n -> {"txt", "key", "pem"}] : n \in 0..MaxSanitizerChunks}
  \cup {<<"pg", "pem", "host">>}

\* sanitize(text) on any DLPSanitizer instance
Sanitize ==
  /\ \E text \in SanitizerTexts :
       LET r == DLPSanitizer_sanitize(text, pattern_lastIndex)
       IN  /\ pattern_lastIndex' = r.lastIndex
           /\ dlpCall' = [op |-> "sanitize", text |-> text, sanitized |-> r.sanitized,
                          detected |-> r.detected, ret |-> FALSE]
  /\ UNCHANGED <<storeVars, indexingVars, syncVars, cryptoVars, embeddingVars, toolVars, linkVars>>

\* hasSecrets(text) on any DLPSanitizer instance
HasSecrets ==
  /\ \E text \in SanitizerTexts :
       LET r == DLPSanitizer_hasSecrets(text, pattern_lastIndex)
       IN  /\ pattern_lastIndex' = r.lastIndex
           /\ dlpCall' = [op |-> "hasSecrets", text |-> text, sanitized |-> <<>>,
                          detected |-> {}, ret |-> r.ret]
  /\ UNCHANGED <<storeVars, indexingVars, syncVars, cryptoVars, embeddingVars, toolVars, linkVars>>

SanitizerNext ==
  \/ Sanitize
  \/ HasSecrets

\* ------------------------------------------- POST /api/devices/link (web)

\* How many POST requests one run makes, how far the server's clock runs, and
\* how long a link code lives (5 minutes in the route), in ticks.
MaxLinkCalls == 3
MaxLinkClock == 2
LinkTTL == 1

\* What generateSecureLinkCode may return.
LinkCodes == {"A1B2", "C3D4"}

\* NextResponse.json(body, { status })
Response(status, body) == Some([status |-> status, body |-> body])

\* POST up to its first query: getUser, request.json(), the two checks.
\* `user`: the session has a user; "" stands for a field the body lacks.
LinkPost ==
  /\ Len(linkCalls) < MaxLinkCalls
  /\ \E user \in BOOLEAN, deviceName \in {"", "laptop"}, publicKey \in {"", "pk"},
        linkCode \in Opt(LinkCodes) :
       LET call == [deviceName |-> deviceName, publicKey |-> publicKey, linkCode |-> linkCode,
                    pc |-> "done", linkRequest |-> None, device |-> 0, code |-> "",
                    response |-> None]
       IN  linkCalls' = Append(linkCalls,
             IF ~user THEN [call EXCEPT !.response = Response(401, "Unauthorized")]
             ELSE IF deviceName = "" \/ publicKey = ""
             THEN [call EXCEPT !.response = Response(400, "Missing deviceName or publicKey")]
             ELSE IF linkCode.some THEN [call EXCEPT !.pc = "select"]
             ELSE [call EXCEPT !.pc = "request"])
  /\ UNCHANGED <<device_link_requests, devices, linkClock>>
  /\ UNCHANGED <<storeVars, indexingVars, syncVars, cryptoVars, embeddingVars, toolVars, sanitizerVars>>

\* select('*').eq('link_code', linkCode).eq('status', 'pending').single()
\* returns: without a row the code is refused; with one, an expired request
\* is to be marked, a live one leads to the insert of the device.
LinkSelected ==
  /\ \E c \in 1..Len(linkCalls) :
       /\ linkCalls[c].pc = "select"
       /\ LET rows == {row \in device_link_requests :
                         row.link_code = linkCalls[c].linkCode.val /\ row.status = "pending"}
          IN  IF rows = {}
              THEN linkCalls' = [linkCalls EXCEPT ![c] =
                     [@ EXCEPT !.pc = "done",
                               !.response = Response(400, "Invalid or expired link code")]]
              ELSE \E linkRequest \in rows :
                     linkCalls' = [linkCalls EXCEPT ![c] =
                       [@ EXCEPT !.linkRequest = Some(linkRequest),
                                 !.pc = IF linkRequest.expires_at < linkClock
                                        THEN "expire" ELSE "insert"]]
  /\ UNCHANGED <<device_link_requests, devices, linkClock>>
  /\ UNCHANGED <<storeVars, indexingVars, syncVars, cryptoVars, embeddingVars, toolVars, sanitizerVars>>

\* update({ status: 'expired' }).eq('id', linkRequest.id), then 400
LinkExpired ==
  /\ \E c \in 1..Len(linkCalls) :
       /\ linkCalls[c].pc = "expire"
       /\ device_link_requests' =
            {IF row.id = linkCalls[c].linkRequest.val.id
             THEN [row EXCEPT !.status = "expired"] ELSE row : row \in device_link_requests}
       /\ linkCalls' = [linkCalls EXCEPT ![c] =
            [@ EXCEPT !.pc = "done", !.response = Response(400, "Link code has expired")]]
  /\ UNCHANGED <<devices, linkClock>>
  /\ UNCHANGED <<storeVars, indexingVars, syncVars, cryptoVars, embeddingVars, toolVars, sanitizerVars>>

\* from('devices').insert({...}).select().single() returns: the new device,
\* or deviceError and 500.
DeviceInserted ==
  /\ \E c \in 1..Len(linkCalls) :
       /\ linkCalls[c].pc = "insert"
       /\ \/ /\ linkCalls' = [linkCalls EXCEPT ![c] =
                  [@ EXCEPT !.pc = "done", !.response = Response(500, "deviceError")]]
             /\ UNCHANGED devices
          \/ LET id == Cardinality(devices) + 1
             IN  /\ devices' = devices \cup
                       {[id |-> id, device_name |-> linkCalls[c].deviceName,
                         public_key |-> linkCalls[c].publicKey]}
                 /\ linkCalls' = [linkCalls EXCEPT ![c] =
                      [@ EXCEPT !.pc = "complete", !.device = id]]
  /\ UNCHANGED <<device_link_requests, linkClock>>
  /\ UNCHANGED <<storeVars, indexingVars, syncVars, cryptoVars, embeddingVars, toolVars, sanitizerVars>>

\* update({ status: 'completed', linked_device_id: device.id })
\* .eq('id', linkRequest.id), then the device and the request's
\* encrypted_master_key go out.
LinkCompleted(c) ==
  /\ device_link_requests' =
       {IF row.id = linkCalls[c].linkRequest.val.id
        THEN [row EXCEPT !.status = "completed", !.linked_device_id = linkCalls[c].device]
        ELSE row : row \in device_link_requests}
  /\ linkCalls' = [linkCalls EXCEPT ![c] =
       [@ EXCEPT !.pc = "done", !.response = Response(200, "device, encryptedMasterKey")]]

LinkCompletes ==
  /\ \E c \in 1..Len(linkCalls) :
       /\ linkCalls[c].pc = "complete"
       /\ LinkCompleted(c)
  /\ UNCHANGED <<devices, linkClock>>
  /\ UNCHANGED <<storeVars, indexingVars, syncVars, cryptoVars, embeddingVars, toolVars, sanitizerVars>>

\* Without a linkCode: insert a pending request under a generated code;
\* link_code is UNIQUE, so a code drawn twice is an insertError and 500.
LinkRequested ==
  /\ \E c \in 1..Len(linkCalls), code \in LinkCodes :
       /\ linkCalls[c].pc = "request"
       /\ IF \E row \in device_link_requests : row.link_code = code
          THEN /\ linkCalls' = [linkCalls EXCEPT ![c] =
                    [@ EXCEPT !.pc = "done", !.code = code,
                              !.response = Response(500, "insertError")]]
               /\ UNCHANGED device_link_requests
          ELSE /\ device_link_requests' = device_link_requests \cup
                    {[id |-> Cardinality(device_link_requests) + 1, link_code |-> code,
                      encrypted_master_key |-> None, status |-> "pending",
                      linked_device_id |-> 0, expires_at |-> linkClock + LinkTTL]}
               /\ linkCalls' = [linkCalls EXCEPT ![c] =
                    [@ EXCEPT !.pc = "done", !.code = code,
                              !.response = Response(200, "linkCode, expiresAt, qrData")]]
  /\ UNCHANGED <<devices, linkClock>>
  /\ UNCHANGED <<storeVars, indexingVars, syncVars, cryptoVars, embeddingVars, toolVars, sanitizerVars>>

\* new Date() moves on
LinkTick ==
  /\ linkClock < MaxLinkClock
  /\ linkClock' = linkClock + 1
  /\ UNCHANGED <<device_link_requests, devices, linkCalls>>
  /\ UNCHANGED <<storeVars, indexingVars, syncVars, cryptoVars, embeddingVars, toolVars, sanitizerVars>>

LinkNext ==
  \/ LinkPost
  \/ LinkSelected
  \/ LinkExpired
  \/ DeviceInserted
  \/ LinkCompletes
  \/ LinkRequested
  \/ LinkTick

\* --------------------------------------------------------- EmbeddingService

\* How many initialize and embed calls one run makes.
MaxEmbedCalls == 3

\* The service's fields as one value.
EMB ==
  [extractor |-> extractor, isInitializing |-> isInitializing, initPromise |-> initPromise,
   pipelineCalls |-> pipelineCalls]

SetEMB(emb) ==
  /\ extractor' = emb.extractor
  /\ isInitializing' = emb.isInitializing
  /\ initPromise' = emb.initPromise
  /\ pipelineCalls' = emb.pipelineCalls

\* A call of initialize or embed: where it stands and how its promise ended.
NewEmbedCall(op) == [op |-> op, pc |-> "run", state |-> "pending"]

\* loadModel up to await pipeline(...)
loadModel(emb) == [emb EXCEPT !.pipelineCalls = @ + 1]

\* initialize without the test of initPromise
initialize_NoJoin(emb, call) ==
  IF emb.extractor THEN [emb |-> emb, call |-> [call EXCEPT !.pc = "initialized"]]
  ELSE [emb |-> [loadModel(emb) EXCEPT !.isInitializing = TRUE, !.initPromise = "pending"],
        call |-> [call EXCEPT !.pc = "loading"]]

\* initialize up to its await: it returns at once with the model loaded,
\* returns the promise of the load under way, or starts the load and awaits it.
initialize(emb, call) ==
  IF emb.extractor THEN [emb |-> emb, call |-> [call EXCEPT !.pc = "initialized"]]
  ELSE IF emb.initPromise # "null" THEN [emb |-> emb, call |-> [call EXCEPT !.pc = "joined"]]
  ELSE [emb |-> [loadModel(emb) EXCEPT !.isInitializing = TRUE, !.initPromise = "pending"],
        call |-> [call EXCEPT !.pc = "loading"]]

\* The promise of a call settles.
Resolves(call) == [call EXCEPT !.pc = "done", !.state = "resolved"]
Rejects(call) == [call EXCEPT !.pc = "done", !.state = "rejected"]

\* initialize has resolved: an initialize call is over, an embed call goes on.
Initialized(call) == IF call.op = "initialize" THEN Resolves(call) ELSE call

EmbedStep(c, emb, call) ==
  /\ SetEMB(emb)
  /\ embedCalls' = IF c > Len(embedCalls) THEN Append(embedCalls, call)
                   ELSE [embedCalls EXCEPT ![c] = call]
  /\ UNCHANGED <<storeVars, indexingVars, syncVars, cryptoVars, toolVars, sanitizerVars, linkVars>>

\* service.initialize() and service.embed(text), which awaits initialize()
EmbeddingCalled(op) ==
  /\ Len(embedCalls) < MaxEmbedCalls
  /\ LET r == initialize(EMB, NewEmbedCall(op))
     IN  EmbedStep(Len(embedCalls) + 1, r.emb,
                   IF r.call.pc = "initialized" THEN Initialized(r.call) ELSE r.call)

Initialize == EmbeddingCalled("initialize")

Embed == EmbeddingCalled("embed")

\* pipeline(...) settles: loadModel sets the extractor and its promise
\* fulfils, or the promise rejects.
PipelineSettles ==
  /\ initPromise = "pending"
  /\ \E loaded \in BOOLEAN :
       /\ extractor' = loaded
       /\ initPromise' = IF loaded THEN "fulfilled" ELSE "rejected"
  /\ UNCHANGED <<isInitializing, pipelineCalls, embedCalls, storeVars, indexingVars, syncVars,
                 cryptoVars, toolVars, sanitizerVars, linkVars>>

\* A call that waits for the load goes on once the load has settled; the
\* call that started it runs its finally block first.
InitializeSettles ==
  \E c \in 1..Len(embedCalls) :
    /\ embedCalls[c].pc \in {"loading", "joined"}
    /\ initPromise # "pending"
    /\ EmbedStep(c, [EMB EXCEPT !.isInitializing =
                                  IF embedCalls[c].pc = "loading" THEN FALSE ELSE @],
                 IF initPromise = "fulfilled"
                 THEN Initialized([embedCalls[c] EXCEPT !.pc = "initialized"])
                 ELSE Rejects(embedCalls[c]))

\* embed after await this.initialize(): it throws without an extractor, or
\* calls it and awaits the output.
EmbedContinues ==
  \E c \in 1..Len(embedCalls) :
    /\ embedCalls[c].pc = "initialized"
    /\ EmbedStep(c, EMB, IF ~extractor THEN Rejects(embedCalls[c])
                         ELSE [embedCalls[c] EXCEPT !.pc = "extract"])

\* The extractor settles.
ExtractSettles ==
  \E c \in 1..Len(embedCalls), output \in BOOLEAN :
    /\ embedCalls[c].pc = "extract"
    /\ EmbedStep(c, EMB, IF output THEN Resolves(embedCalls[c]) ELSE Rejects(embedCalls[c]))

EmbeddingNext ==
  \/ Initialize
  \/ Embed
  \/ PipelineSettles
  \/ InitializeSettles
  \/ EmbedContinues
  \/ ExtractSettles


\* ------------------------------------------------ the sync server's pull route

\* How many events the server holds at most.
MaxRemote == 3
\* The route's page size: 2 here stands for the default of 100.
PullLimit == 2
\* How many requests the calls of one run may have issued when a call starts.
MaxPullFetches == 3

\* A row of the server's sync_events with what the blobs table says of its
\* blob: a DELETE has none; a small blob is sent inline, a large one through
\* a signed URL.
RemoteEvent(sequence_num, kind) ==
  [sequence_num |-> sequence_num,
   event_type |-> IF kind = "DELETE" THEN "DELETE" ELSE "ADD",
   blob_id |-> IF kind = "DELETE" THEN None ELSE Some(sequence_num),
   size |-> kind]

\* The tables a server may hold: n events numbered from 1.
Remotes(n) ==
  {[i \in 1..n |-> RemoteEvent(i, kinds[i])] : kinds \in [1..n -> {"inline", "url", "DELETE"}]}

\* GET /api/sync/pull?cursor=: the events after the cursor in ascending
\* order, at most `limit` of them; their blobs, keyed in the order in which
\* the downloads complete; the highest sequence number, and whether the page
\* is full.
GET(rows, cursor, limit) ==
  LET after == SelectSeq(rows, LAMBDA e : e.sequence_num > cursor)
      events == SubSeq(after, 1, IF Len(after) < limit THEN Len(after) ELSE limit)
      blobIds(size) == {events[i].blob_id.val :
                          i \in {j \in 1..Len(events) : /\ events[j].event_type # "DELETE"
                                                        /\ events[j].blob_id.some
                                                        /\ events[j].size = size}}
      nums == {events[i].sequence_num : i \in 1..Len(events)}
      latestSeq == IF events = <<>> THEN cursor
                   ELSE CHOOSE n \in nums : \A other \in nums : other <= n
      \* a download or a signed URL that storage refuses is left out
      got(size) == UNION {Orders(ids) : ids \in SUBSET blobIds(size)}
  IN  {[events |-> events, blobs |-> blobs, blobUrls |-> blobUrls, cursor |-> latestSeq,
        hasMore |-> Len(events) = limit] :
         blobs \in got("inline"), blobUrls \in got("url")}

\* A pull or pullAll called while no other is under way.
PullAlone ==
  /\ Awaiting({"pull", "blob"}) = {}
  /\ fetchCount < MaxPullFetches
  /\ \E sinceCursor \in Opt({0}) : Move("SyncEngine.pull", pull(NET, FALSE, sinceCursor))

PullAllAlone ==
  /\ Awaiting({"pull", "blob"}) = {}
  /\ fetchCount < MaxPullFetches
  /\ Move("SyncEngine.pullAll", pullAll(NET))

\* The route answers, or the request fails.
RouteResponds ==
  \E id \in Awaiting({"pull"}), resOk \in BOOLEAN :
    \E data \in GET(remote_sync_events, pending[id].since, PullLimit) :
      Move(IF pending[id].all THEN "SyncEngine.pullAll" ELSE "SyncEngine.pull",
           pullResponse(NET, id, resOk, data, clock))

\* The signed URLs answer, or one of them fails.
SignedUrlsRespond ==
  \E id \in Awaiting({"blob"}), resOk \in BOOLEAN :
    Move(IF pending[id].all THEN "SyncEngine.pullAll" ELSE "SyncEngine.pull",
         blobResponse(NET, id, resOk, clock))

PullNext ==
  \/ SyncConfigure
  \/ SyncConnect
  \/ SyncDisconnect
  \/ PullAlone
  \/ PullAllAlone
  \/ RouteResponds
  \/ SignedUrlsRespond


\* ----------------------------------------------------------- MCP tool facade

\* How many tool calls one run makes.
MaxToolCalls == 2

ServerConfigs == [masterKey : BOOLEAN, vaultKey : BOOLEAN, blindIndexKey : BOOLEAN, sync : BOOLEAN]

\* createEngramServer: the secrets engine and the secret store are built only
\* with a master key; the engine is given what the configuration holds.
createEngramServer(net, config) ==
  IF ~config.masterKey THEN net
  ELSE [net EXCEPT
          !.secrets = [NewSecretsSyncEngine(net.secret_sync_state) EXCEPT
                         !.vaultKey = IF config.vaultKey THEN 1 ELSE 0,
                         !.blindIndexKey = IF config.blindIndexKey
                                           THEN MIN_BLIND_INDEX_KEY_LENGTH ELSE 0,
                         !.config = config.sync],
          !.secretStore = [syncEngine |-> TRUE, syncEnabled |-> config.sync]]

\* A call of a tool handler: where it stands, what it holds across its await,
\* what it returned, whether a collaborator threw or rejected to it (failed),
\* and whether it threw to the transport (thrown).
NewToolCall(tool) ==
  [tool |-> tool, pc |-> "run", content |-> <<>>, tags |-> None, shares |-> 0,
   threshold |-> 0, awaits |-> 0, result |-> None, failed |-> FALSE, thrown |-> FALSE]

\* return { content: [{ type: 'text', text }], isError }
Returns(call, isError, text) ==
  [call EXCEPT !.pc = "done", !.result = Some([isError |-> isError, text |-> text])]

\* the exception leaving the handler
Handled_Rethrow(call, prefix, message) ==
  [call EXCEPT !.pc = "done", !.failed = TRUE, !.thrown = TRUE]

\* catch (error) { return { content: [... `${prefix}${message}`], isError: true } }
Handled(call, prefix, message) ==
  [Returns(call, TRUE, prefix \o message) EXCEPT !.failed = TRUE]

\* MemoryStore.search: vec0 rejects a query vector of the wrong dimension;
\* the rows of memories_vec joined with memories. The limit of every tool
\* call exceeds the number of rows a run creates.
search(db, queryVector) ==
  IF queryVector.dim # VecDim THEN Threw(db, "Dimension mismatch for query vector")
  ELSE Returned(db, DOMAIN db.memories_vec \cap DOMAIN db.memories)

\* MemoryStore.list
list(db) == Returned(db, DOMAIN db.memories)

\* MemoryStore.count
count(db) == Cardinality(DOMAIN db.memories)

\* EmbeddingService.isReady
isReady == extractor

\* splitKey's tests of its arguments: "" or the message it throws
splitKey(shares, threshold) ==
  IF threshold > shares THEN "Threshold cannot exceed shares"
  ELSE IF threshold < 2 THEN "Threshold must be at least 2"
  ELSE IF shares < 2 THEN "Must create at least 2 shares"
  ELSE ""

\* What a step of a handler leaves: the store, the engines and the call.
Out(db, net, call) == [db |-> db, net |-> net, call |-> call]

mcp_get_secret(call, row) ==
  IF ~serverConfig.masterKey
  THEN Returns(call, TRUE, "Error: Secrets vault is not initialized (Master Key missing).")
  ELSE LET secret == SecretStore_get(row)
       IN  IF ~secret.ok THEN Handled(call, "Failed to retrieve secret: ", "decrypt failed")
           ELSE IF ~secret.ret.some THEN Returns(call, TRUE, "Secret not found in vault.")
           ELSE Returns(call, FALSE, "secret")

\* mcp_save_memory, mcp_read_memory and mcp_find_similar_sessions up to
\* await embedder.embed(...); save sanitizes first.
AwaitsEmbed(call, content, tags) ==
  [call EXCEPT !.pc = "embed", !.content = content, !.tags = tags]

\* mcp_save_memory after the embedder resolved
mcp_save_memory(db, net, call, vector) ==
  LET memory == create(db, cryptoKey, nextId, clock,
                       [content |-> call.content, tags |-> call.tags, source |-> NoSource],
                       vector)
  IN  IF memory.ok THEN Out(memory.db, net, Returns(call, FALSE, "Remembered"))
      ELSE Out(memory.db, net, Handled(call, "Failed to remember: ", memory.error))

\* mcp_read_memory after the embedder resolved
mcp_read_memory(db, net, call, vector) ==
  LET results == search(db, vector)
  IN  IF ~results.ok THEN Out(db, net, Handled(call, "Search failed: ", results.error))
      ELSE IF results.ret = {} THEN Out(db, net, Returns(call, FALSE, "No relevant memories found."))
      ELSE Out(db, net, Returns(call, FALSE, "Found relevant memories"))

\* mcp_find_similar_sessions after the embedder resolved
mcp_find_similar_sessions(db, net, call, vector) ==
  LET results == search(db, vector)
      sessionResults == {id \in results.ret : Includes(db.memories[id].tags, "session-index")}
  IN  IF ~results.ok THEN Out(db, net, Handled(call, "Search failed: ", results.error))
      ELSE IF sessionResults = {}
      THEN Out(db, net, Returns(call, FALSE, "No relevant past sessions found."))
      ELSE Out(db, net, Returns(call, FALSE, "Found relevant session"))

mcp_delete_memory(db, net, call, memory_id) ==
  LET deleted == delete(db, memory_id)
  IN  IF ~deleted.ok THEN Out(deleted.db, net, Handled(call, "Delete failed: ", deleted.error))
      ELSE IF deleted.ret THEN Out(deleted.db, net, Returns(call, FALSE, "Memory has been deleted."))
      ELSE Out(deleted.db, net, Returns(call, FALSE, "Memory not found."))

mcp_list_memories(db, net, call) ==
  IF list(db).ret = {} THEN Out(db, net, Returns(call, FALSE, "No memories found."))
  ELSE Out(db, net, Returns(call, FALSE, "memories"))

mcp_memory_status(db, net, call) ==
  Out(db, net, Returns(call, FALSE, IF isReady THEN "Embedding model: Ready"
                                    ELSE IF isInitializing THEN "Embedding model: Loading..."
                                    ELSE "Embedding model: Not loaded"))

\* mcp_set_secret up to await secretStore.set(...), which awaits the mirror
\* request when it issued one
mcp_set_secret(db, net, call, key, value, existing) ==
  IF ~serverConfig.masterKey
  THEN Out(db, net, Returns(call, TRUE, "Error: Secrets vault is not initialized."))
  ELSE LET stored == SecretStore_set(net, key, value, None, clock, existing)
       IN  IF ~stored.ok
           THEN Out(db, net, Handled(call, "Failed to store secret: ", stored.error))
           ELSE IF stored.net.fetchCount > net.fetchCount
           THEN Out(db, stored.net, [call EXCEPT !.pc = "set", !.awaits = stored.net.fetchCount])
           ELSE Out(db, stored.net,
                    Returns(call, FALSE, IF isSyncEnabled(stored.net.secretStore)
                                         THEN "Secret stored successfully (synced)."
                                         ELSE "Secret stored successfully (local only)."))

\* mcp_authorize_device and mcp_revoke_device up to the await of the request:
\* connect(), then the engine's call
DeviceTool(db, net, call, prefix) ==
  IF ~serverConfig.masterKey
  THEN Out(db, net, Returns(call, TRUE, "Error: Sync engine not initialized."))
  ELSE LET connected == SecretsSyncEngine_connect(net)
           requested == IF call.tool = "mcp_authorize_device"
                        THEN authorizeDevice(connected.net) ELSE revokeDevice(connected.net)
       IN  IF ~connected.ok THEN Out(db, net, Handled(call, prefix, connected.error))
           ELSE IF ~requested.ok
           THEN Out(db, connected.net, Handled(call, prefix, requested.error))
           ELSE Out(db, requested.net,
                    [call EXCEPT !.pc = "device", !.awaits = requested.net.fetchCount])

\* mcp_list_devices up to await fetch(...)
mcp_list_devices(db, net, call) ==
  IF ~serverConfig.masterKey \/ ~serverConfig.sync
  THEN Out(db, net, Returns(call, TRUE, "Error: Sync not configured."))
  ELSE LET requested == fetch(net, Request("listDevices", "", None, NullChecksum, None, FALSE))
       IN  Out(db, requested, [call EXCEPT !.pc = "fetch", !.awaits = requested.fetchCount])

\* What the devices request may come to: fetch rejects, a status that is not
\* ok, a body without a devices list, an empty list, a list of devices.
DeviceLists == {"rejected", "status", "malformed", "empty", "devices"}

\* mcp_list_devices after its await
listDevicesResponse(call, outcome) ==
  IF outcome = "rejected" THEN Handled(call, "Failed to list devices: ", "fetch failed")
  ELSE IF outcome = "status"
  THEN Handled(call, "Failed to list devices: ", "Failed to list devices: 500")
  ELSE IF outcome = "malformed"
  THEN Handled(call, "Failed to list devices: ", "Cannot read properties of undefined")
  ELSE IF outcome = "empty" THEN Returns(call, FALSE, "No devices authorized.")
  ELSE Returns(call, FALSE, "Authorized devices:")

\* mcp_create_recovery_kit up to await generateRecoveryKit(...)
mcp_create_recovery_kit(db, net, call, shares, threshold) ==
  IF ~serverConfig.vaultKey
  THEN Out(db, net, Returns(call, TRUE, "Error: Vault key not configured."))
  ELSE Out(db, net, [call EXCEPT !.pc = "kit", !.shares = shares, !.threshold = threshold])

\* mcp_create_recovery_kit after its await
recoveryKitSettled(call) ==
  IF splitKey(call.shares, call.threshold) # ""
  THEN Handled(call, "Failed to create recovery kit: ", splitKey(call.shares, call.threshold))
  ELSE Returns(call, FALSE, "Recovery kit created")

\* One step of tool call c: a new call when c is past the calls made so far.
ToolStep(c, out) ==
  /\ out.net.fetchCount <= MaxFetches
  /\ out.net.secretUuids <= MaxSecretIds
  /\ Len(out.db.mutations) <= MaxJournal
  /\ SetDB(out.db)
  /\ SetNET(out.net)
  /\ nextId' = IF nextId \in DOMAIN out.db.memories THEN nextId + 1 ELSE nextId
  /\ toolCalls' = IF c > Len(toolCalls) THEN Append(toolCalls, out.call)
                  ELSE [toolCalls EXCEPT ![c] = out.call]
  /\ last' = Quiet(out.call.tool)
  /\ UNCHANGED <<cryptoKey, clock, indexingVars, cryptoVars, embeddingVars, serverConfig,
                 sanitizerVars, linkVars>>

\* A new call of a tool that runs to its first await or to its return.
ToolCalled(out) == Len(toolCalls) < MaxToolCalls /\ ToolStep(Len(toolCalls) + 1, out)

ToolKeys == {"API_KEY"}
ToolValues == {<<"txt">>, <<"blk">>}
ToolContents == {<<"txt">>, <<"key">>}
ToolTagInputs == {None, Some(<<"session-index">>)}
ToolKits == {<<5, 3>>, <<2, 3>>}

GetSecret ==
  \E key \in ToolKeys : \E row \in SelectSecret(NET, key) :
    ToolCalled(Out(DB, NET, mcp_get_secret(NewToolCall("mcp_get_secret"), row)))

SaveMemory ==
  \E content \in ToolContents, tags \in ToolTagInputs :
    ToolCalled(Out(DB, NET, AwaitsEmbed(NewToolCall("mcp_save_memory"),
                                        sanitize(content).sanitized, tags)))

ReadMemory ==
  \E query \in ToolContents :
    ToolCalled(Out(DB, NET, AwaitsEmbed(NewToolCall("mcp_read_memory"), query, None)))

FindSimilarSessions ==
  \E intent \in ToolContents :
    ToolCalled(Out(DB, NET, AwaitsEmbed(NewToolCall("mcp_find_similar_sessions"), intent, None)))

DeleteMemory ==
  \E memory_id \in KnownIds :
    ToolCalled(mcp_delete_memory(DB, NET, NewToolCall("mcp_delete_memory"), memory_id))

ListMemories == ToolCalled(mcp_list_memories(DB, NET, NewToolCall("mcp_list_memories")))

MemoryStatus == ToolCalled(mcp_memory_status(DB, NET, NewToolCall("mcp_memory_status")))

SetSecret ==
  \E key \in ToolKeys, value \in ToolValues : \E existing \in SelectSecret(NET, key) :
    ToolCalled(mcp_set_secret(DB, NET, NewToolCall("mcp_set_secret"), key, value, existing))

AuthorizeDeviceTool ==
  ToolCalled(DeviceTool(DB, NET, NewToolCall("mcp_authorize_device"),
                        "Failed to authorize device: "))

RevokeDeviceTool ==
  ToolCalled(DeviceTool(DB, NET, NewToolCall("mcp_revoke_device"), "Failed to revoke device: "))

ListDevices == ToolCalled(mcp_list_devices(DB, NET, NewToolCall("mcp_list_devices")))

CreateRecoveryKit ==
  \E kit \in ToolKits :
    ToolCalled(mcp_create_recovery_kit(DB, NET, NewToolCall("mcp_create_recovery_kit"),
                                       kit[1], kit[2]))

\* The calls that stand at an await.
ToolAt(pc) == {c \in 1..Len(toolCalls) : toolCalls[c].pc = pc}

\* The three tools that embed go on when the embedder settles.
Embedded(db, net, call, vector) ==
  IF call.tool = "mcp_save_memory" THEN mcp_save_memory(db, net, call, vector)
  ELSE IF call.tool = "mcp_read_memory" THEN mcp_read_memory(db, net, call, vector)
  ELSE mcp_find_similar_sessions(db, net, call, vector)

ToolEmbedRejects ==
  \E c \in ToolAt("embed") :
    ToolStep(c, Out(DB, NET, Handled(toolCalls[c],
                                     IF toolCalls[c].tool = "mcp_save_memory"
                                     THEN "Failed to remember: " ELSE "Search failed: ",
                                     EmbedError)))

ToolEmbedResolves ==
  \E c \in ToolAt("embed"), vector \in {GoodVector, BadVector} :
    /\ toolCalls[c].tool = "mcp_save_memory" => nextId <= MaxCreates /\ Room(1)
    /\ ToolStep(c, Embedded(DB, NET, toolCalls[c], vector))

\* secretStore.set resolves whatever the mirror request came to.
ToolSetSettles ==
  \E c \in ToolAt("set"), resOk \in BOOLEAN :
    LET net == mirrorResponse(NET, toolCalls[c].awaits, resOk).net
    IN  ToolStep(c, Out(DB, net, Returns(toolCalls[c], FALSE,
                                         "Secret stored successfully (synced).")))

ToolDeviceSettles ==
  \E c \in ToolAt("device"), resOk \in BOOLEAN :
    LET r == deviceResponse(NET, toolCalls[c].awaits, resOk)
    IN  ToolStep(c, Out(DB, r.net,
                        IF r.ok THEN Returns(toolCalls[c], FALSE, "Device done")
                        ELSE Handled(toolCalls[c],
                                     IF toolCalls[c].tool = "mcp_authorize_device"
                                     THEN "Failed to authorize device: "
                                     ELSE "Failed to revoke device: ", r.error)))

ToolFetchSettles ==
  \E c \in ToolAt("fetch"), outcome \in DeviceLists :
    ToolStep(c, Out(DB, Settled(NET, toolCalls[c].awaits),
                    listDevicesResponse(toolCalls[c], outcome)))

ToolKitSettles ==
  \E c \in ToolAt("kit") : ToolStep(c, Out(DB, NET, recoveryKitSettled(toolCalls[c])))

ToolsNext ==
  \/ GetSecret
  \/ SaveMemory
  \/ ReadMemory
  \/ FindSimilarSessions
  \/ DeleteMemory
  \/ ListMemories
  \/ MemoryStatus
  \/ SetSecret
  \/ AuthorizeDeviceTool
  \/ RevokeDeviceTool
  \/ ListDevices
  \/ CreateRecoveryKit
  \/ ToolEmbedRejects
  \/ ToolEmbedResolves
  \/ ToolSetSettles
  \/ ToolDeviceSettles
  \/ ToolFetchSettles
  \/ ToolKitSettles


\* -------------------------------------------------------------- properties

\* C8: at most one memory has source = p, for every file path p.
C8_OneMemoryPerPath ==
  \A path \in IndexingPaths :
    Cardinality({id \in DOMAIN memories : memories[id].source = path}) <= 1

\* The event sequences of one ingestFile call that the lifecycle allows.
LifecycleTraces ==
  {<<"start", "parsed", "embedded", "stored">>, <<"start", "parsed", "embedded", "skipped">>,
   <<"start", "error">>, <<"start", "parsed", "error">>, <<"start", "parsed", "embedded", "error">>}

IsPrefix(s, t) == Len(s) <= Len(t) /\ SubSeq(t, 1, Len(s)) = s

\* C9: every ingestFile call emits start -> parsed -> embedded -> (stored |
\* skipped), with error in place of any later step, and has emitted exactly
\* one terminal event when it ends.
C9_LifecycleOfEachCall ==
  \A c \in 1..Len(ingests) :
    /\ \E t \in LifecycleTraces : IsPrefix(ingests[c].trace, t)
    /\ ingests[c].pc = "done" => ingests[c].trace \in LifecycleTraces


Project(events) == [i \in 1..Len(events) |-> <<events[i].type, events[i].memoryId>>]

\* C1: a mutation of create, update or delete is persisted if and only if its
\* sync event is persisted: in every state the journal lists exactly the
\* committed data changes, in commit order.
C1_MutationIffSyncEvent == Project(sync_events) = mutations

\* C3: the journal holds exactly one event per successful create, update or
\* delete call (ADD, UPDATE, DELETE), in the order of the calls.
C3_OneEventPerSuccessfulCall == Project(sync_events) = calls

\* C3 witness: a memory was created and then updated or deleted, both calls
\* succeeding.
C3_Witness ==
  \E i, j \in 1..Len(calls) :
    i < j /\ calls[i][2] = calls[j][2] /\ calls[i][1] = "ADD" /\ calls[j][1] # "ADD"

\* C4: applyEncryptedSyncEvent appends nothing to the journal of the store
\* that applies the event.
C4_ApplyLeavesJournal ==
  [][last'.op = "applyEncryptedSyncEvent" => sync_events' = sync_events]_vars

\* C5: applying a DELETE event, which carries null encrypted_data, returns
\* without error and leaves no memory row and no vector row with the id.
C5_ApplyDeleteRemoves ==
  \A event \in PeerEvents(KnownIds, StorePeerKeys, StorePeerContents) :
    event.type = "DELETE" =>
      LET r == applyEncryptedSyncEvent(DB, cryptoKey, event, None)
      IN  /\ r.ok
          /\ event.memoryId \notin DOMAIN r.db.memories
          /\ event.memoryId \notin DOMAIN r.db.memories_vec

\* The decrypted payload of the event does not hash to its checksum.
ChecksumMismatch(event) ==
  /\ event.encryptedData.some
  /\ decryptContent(cryptoKey, event.encryptedData.val).ok
  /\ sha256(decryptContent(cryptoKey, event.encryptedData.val).val) # event.checksum

\* C6: when the decrypted payload does not hash to the event's checksum,
\* applyEncryptedSyncEvent throws the checksum-mismatch error and leaves
\* memories, vector index and journal as they were.
C6_ChecksumMismatchNoEffect ==
  \A event \in PeerEvents(KnownIds, StorePeerKeys, StorePeerContents),
     vector \in Opt(StoreVectors) :
    ChecksumMismatch(event) =>
      LET r == applyEncryptedSyncEvent(DB, cryptoKey, event, vector)
      IN  /\ ~r.ok
          /\ r.error = "Checksum mismatch - data may be corrupted"
          /\ r.db = DB

\* C6 witness: a store that holds memories has just refused a tampered event.
C6_Witness ==
  /\ last.op = "applyEncryptedSyncEvent"
  /\ last.error = "Checksum mismatch - data may be corrupted"
  /\ DOMAIN memories # {}

\* C7: a row with id m is in the main table if and only if a row with
\* memory_id m is in the vector index.
C7_VectorRowIffMemoryRow == DOMAIN memories = DOMAIN memories_vec

Dense(events) == \A k \in 1..Len(events) : events[k].sequenceNum = k

\* C2: in each journal stream, sync_events of the memory store and
\* local_secret_sync_events of the secrets engine, the k-th event appended has
\* sequence_num = k: the numbers are strictly increasing and dense from 1.
C2_SequenceDenseFromOne == Dense(sync_events) /\ Dense(local_secret_sync_events)

C2_Witness == Len(sync_events) >= 2 /\ Len(local_secret_sync_events) >= 2

\* What one call started while the engine is not connected may do: fail, and
\* leave the engines, the tables and the network as they were.
Refused(r) == ~r.ok /\ r.net = NET

\* C10: on both engines push, pull, pullAll, pushSecret, deleteSecret,
\* pullSecrets, authorizeDevice and revokeDevice, invoked while the engine is
\* not connected, fail without a network request and without a change of
\* the sync cursor or of the local journal.
C10_DisconnectedRefuses ==
  /\ ~syncEngine.isConnected =>
       /\ Refused(push(NET, None))
       /\ Refused(pushWithBlindIndex(NET, 1))
       /\ \A sinceCursor \in Opt(0..MaxCursor) : Refused(pull(NET, FALSE, sinceCursor))
       /\ Refused(pullAll(NET))
  /\ ~secretsEngine.isConnected =>
       /\ \A value \in SyncSecretValues : Refused(pushSecret(NET, "s1", "API_KEY", value))
       /\ Refused(deleteSecret(NET, "s1", "API_KEY"))
       /\ Refused(pullSecrets(NET))
       /\ Refused(authorizeDevice(NET))
       /\ Refused(revokeDevice(NET))

\* A push refused after disconnect(), by an engine that has pushed before.
C10_Witness ==
  /\ last = [op |-> "SecretsSyncEngine.pushSecret", ok |-> FALSE,
             error |-> "Not connected to sync service"]
  /\ secretsEngine.config /\ ~secretsEngine.isConnected
  /\ local_secret_sync_events # <<>>
  /\ secretsEngine.syncCursor > 0

\* How many DELETE events the journal of db holds for the id.
Tombstones(db, id) ==
  Cardinality({i \in 1..Len(db.sync_events) :
                 db.sync_events[i].type = "DELETE" /\ db.sync_events[i].memoryId = id})

\* C11: update and delete on an id that is not present change nothing and
\* append no sync event, update returning null and delete returning false; so
\* deleting a present id twice adds exactly one DELETE event in total.
C11_AbsentIdNoEffect ==
  /\ \A id \in KnownIds \ DOMAIN memories :
       /\ delete(DB, id) = Returned(DB, FALSE)
       /\ \A content \in Opt(StoreContents), tags \in StoreTagInputs,
             newVector \in Opt(StoreVectors) :
            update(DB, cryptoKey, id, [content |-> content, tags |-> tags], newVector)
              = Returned(DB, None)
  /\ \A id \in DOMAIN memories :
       LET once == delete(DB, id)
           twice == delete(once.db, id)
       IN  /\ once.ok /\ once.ret = TRUE
           /\ twice = Returned(once.db, FALSE)
           /\ Tombstones(twice.db, id) = Tombstones(DB, id) + 1

\* An update has just returned from a store whose only memory was deleted.
C11_Witness ==
  /\ last = [op |-> "update", ok |-> TRUE, error |-> ""]
  /\ DOMAIN memories = {}
  /\ \E i \in 1..Len(sync_events) : sync_events[i].type = "DELETE"

\* What get(key) returns in net: the values over the rows the SELECT may return.
Gets(net, key) == {SecretStore_get(row) : row \in SelectSecret(net, key)}

\* C12: when the mirror to the secrets sync engine fails during set or delete
\* (the engine refuses the call, or the remote answers with an error), the
\* call still resolves and the local change stays: get(k) returns v after
\* set(k, v) and null after delete(k), and the failed response changes no row.
C12_MirrorFailureKeepsLocal ==
  /\ isSyncEnabled(secretStore) =>
       \A key \in MirrorKeys :
         \A existing \in SelectSecret(NET, key) :
           /\ \A value \in MirrorValues :
                LET r == SecretStore_set(NET, key, value, None, clock, existing)
                IN  encrypt(SecretStoreKey, value).ok /\ ~pushSecret(NET, 0, key, value).ok
                      => r.ok /\ Gets(r.net, key) = {[ok |-> TRUE, ret |-> Some(value)]}
           /\ LET r == SecretStore_delete(NET, key, existing)
              IN  existing.some /\ ~deleteSecret(NET, 0, key).ok
                    => r.ok /\ Gets(r.net, key) = {[ok |-> TRUE, ret |-> None]}
  /\ \A id \in DOMAIN pending :
       pending[id].caller # "" =>
         LET r == mirrorResponse(NET, id, FALSE)
         IN  r.ok /\ r.net.secretsTable = secrets /\ id \notin DOMAIN r.net.pending

\* A mirrored set has resolved, all pushes of the run having failed remotely.
C12_Witness ==
  /\ last = [op |-> "SecretStore.set", ok |-> TRUE, error |-> ""]
  /\ fetchCount > 0 /\ DOMAIN pending = {}
  /\ local_secret_sync_events = <<>>
  /\ secrets # {}

\* C13: a row is appended to local_secret_sync_events only after the remote
\* push of that mutation succeeded: pushSecret and deleteSecret append nothing
\* when they are called, a failed response appends nothing, and a successful
\* one appends the one event of its request.
C13_PushThenRecord ==
  /\ \A value \in SyncSecretValues :
       pushSecret(NET, "s1", "API_KEY", value).net.local_secret_sync_events
         = local_secret_sync_events
  /\ deleteSecret(NET, "s1", "API_KEY").net.local_secret_sync_events = local_secret_sync_events
  /\ \A id \in Awaiting({"pushSecret", "deleteSecret"}) :
       LET failed == secretPushResponse(NET, id, FALSE)
           done == secretPushResponse(NET, id, TRUE)
           journal == done.net.local_secret_sync_events
       IN  /\ ~failed.ok
           /\ failed.net.local_secret_sync_events = local_secret_sync_events
           /\ done.ok
           /\ Len(journal) = Len(local_secret_sync_events) + 1
           /\ SubSeq(journal, 1, Len(local_secret_sync_events)) = local_secret_sync_events
           /\ journal[Len(journal)].secretId = pending[id].secretId
           /\ journal[Len(journal)].eventType
                = IF pending[id].op = "pushSecret" THEN "ADD" ELSE "DELETE"

\* A push has failed remotely after an earlier one was recorded.
C13_Witness ==
  /\ last = [op |-> "SecretsSyncEngine.pushSecret", ok |-> FALSE, error |-> "Push failed"]
  /\ Len(local_secret_sync_events) = 1

\* C14: no text reaches the embedder before it has passed through the DLP
\* sanitizer: the string ingestFile hands to embed() is the sanitizer's output
\* for the summary, not the summary itself.
C14_EmbedderGetsSanitized ==
  \A c \in 1..Len(ingests) :
    ingests[c].embedInput.some =>
      ingests[c].embedInput.val = sanitize(ingests[c].summary).sanitized

\* C15: for every memory stored by any path (create, update, or applying a
\* sync event), the stored content is a fixed point of the sanitizer:
\* sanitizing it again changes nothing.
C15_StoredContentFixedPoint ==
  \A id \in DOMAIN memories :
    sanitize(memories[id].content) = [sanitized |-> memories[id].content, detected |-> {}]

\* How many times a tag occurs in a list.
Occurrences(tags, tag) == Cardinality({i \in 1..Len(tags) : tags[i] = tag})

\* C16: if the sanitizer substituted during a create or an update, the stored
\* tags of that memory contain dlp-redacted exactly once, whatever tags the
\* caller supplied.
C16_RedactedTagExactlyOnce ==
  \A content \in DLPContents, tags \in DLPTagInputs :
    sanitize(content).detected # {} =>
      /\ LET r == create(DB, cryptoKey, nextId, clock,
                         [content |-> content, tags |-> tags, source |-> NoSource], GoodVector)
         IN  r.ok => Occurrences(r.db.memories[nextId].tags, "dlp-redacted") = 1
      /\ \A id \in DOMAIN memories :
           LET r == update(DB, cryptoKey, id, [content |-> Some(content), tags |-> tags], None)
           IN  r.ok => Occurrences(r.db.memories[id].tags, "dlp-redacted") = 1

\* C18: after a store holding the same key applies another store's ADD event
\* for memory A together with A's vector, it holds a memory with A's id whose
\* content equals A's content exactly.
C18_ApplyAddKeepsContent ==
  \A content \in DLPPeerContents :
    LET event == [type |-> "ADD", memoryId |-> PeerId,
                  encryptedData |-> Some(encrypt(cryptoKey, content).val),
                  checksum |-> sha256(content), timestamp |-> clock]
        r == applyEncryptedSyncEvent(DB, cryptoKey, event, Some(GoodVector))
    IN  PeerId \notin DOMAIN memories =>
          /\ r.ok
          /\ PeerId \in DOMAIN r.db.memories
          /\ r.db.memories[PeerId].content = content

\* C17: for every non-empty string and every key, encrypt(s) succeeds and
\* decrypt(encrypt(s)) is s.
C17_EncryptDecryptRoundTrip ==
  /\ encryptResult.some => encryptResult.val.ok
  /\ decryptResult.some => decryptResult.val = [ok |-> TRUE, val |-> plaintext]

\* The exceptions of a call other than the summarizer's.
Fatal(call) == SelectSeq(call.raised, LAMBDA e : e.stage # "summarize")

C19_SecretLifecycle ==
  \A key \in SecretKeys :
    /\ Cardinality(SecretRows(NET, key)) <= 1
    /\ Gets(NET, key) = {[ok |-> TRUE,
                          ret |-> IF key \in DOMAIN latestSecret THEN latestSecret[key] ELSE None]}

\* One key was set and deleted, the other set, then set to another value.
C19_Witness ==
  /\ last = [op |-> "SecretStore.set", ok |-> TRUE, error |-> ""]
  /\ \E deleted \in SecretKeys, key \in SecretKeys :
       /\ deleted \in DOMAIN latestSecret /\ latestSecret[deleted] = None
       /\ SecretRows(NET, deleted) = {}
       /\ \E row \in SecretRows(NET, key) :
            /\ row.updated_at > row.created_at
            /\ latestSecret[key] = Some(<<"txt", "txt">>)

C22_PullAllInSequenceOrder ==
  \A i \in 1..Len(pulled) :
    pulled[i].op = "pullAll" =>
      \A j, k \in 1..Len(pulled[i].blobs) : j < k => pulled[i].blobs[j] < pulled[i].blobs[k]

\* C23: however the initialize and embed calls on one service overlap,
\* pipeline() is called at most once, and a call that has resolved finds the
\* model loaded: isReady() is true once calls have resolved.
C23_LoadedOnceBeforeResolve ==
  /\ pipelineCalls <= 1
  /\ \A c \in 1..Len(embedCalls) : embedCalls[c].state = "resolved" => isReady

\* Three calls overlapped the load and all have resolved.
C23_Witness ==
  /\ Len(embedCalls) = MaxEmbedCalls
  /\ \A c \in 1..Len(embedCalls) : embedCalls[c].state = "resolved"
  /\ \E c \in 1..Len(embedCalls) : embedCalls[c].op = "embed"
  /\ pipelineCalls = 1
  /\ ~isInitializing

\* C24: when the first parser that accepts the path returns null for the
\* file, no further parser is tried, the call's last event is skipped, and
\* the call returns false.
C24_FirstParserWins ==
  \A c \in 1..Len(ingests) :
    LET call == ingests[c]
        first == NextParser(call.path, 1)
    IN  (/\ call.pc = "done"
         /\ call.content \in FileKinds
         /\ first # 0
         /\ ~parse(Parsers[first], call.content).some)
        => /\ call.parser = first
           /\ call.trace[Len(call.trace)] = "skipped"
           /\ ~call.ret

\* C25: when an ingestFile call for a path reaches the store while a memory
\* with that source exists, a change updates such a memory in place (new
\* summary, new vector), emits stored and returns true; an add leaves the
\* store as it is, emits skipped and returns false; and a memory is created
\* only when none exists for the path.
C25_DedupeByPath ==
  [][\A c \in 1..Len(ingests) :
       LET call == ingests[c]
           ended == ingests'[c]
           held == {id \in DOMAIN memories : memories[id].source = call.path}
       IN  (/\ call.pc = "embed"
            /\ ended.pc = "done"
            /\ ended.trace[Len(ended.trace)] \in {"stored", "skipped"})
           => /\ (held # {} /\ call.event = "change") =>
                   /\ DOMAIN memories' = DOMAIN memories
                   /\ \E id \in held :
                        /\ memories'[id].content = sanitize(call.summary).sanitized
                        /\ memories_vec'[id] \in IndexingVectors
                   /\ ended.trace[Len(ended.trace)] = "stored"
                   /\ ended.ret
              /\ (held # {} /\ call.event = "add") =>
                   /\ memories' = memories
                   /\ memories_vec' = memories_vec
                   /\ ended.trace[Len(ended.trace)] = "skipped"
                   /\ ~ended.ret
              /\ DOMAIN memories' # DOMAIN memories => held = {}
    ]_vars

\* C26: a pull moves the cursor only when its whole batch went through. A
\* step in which pull, pullAll or pullSecrets fails (the request, a blob
\* fetch, a decryption or a checksum) leaves both engines' cursors and the
\* saved cursor as they were, and every pull that starts without a cursor
\* of the caller's asks the server for the events after the engine's cursor,
\* so the same events are offered again.
\* (When a pull of pullAll succeeds and the next one is refused at once as
\* not connected, the step holds both pulls: the cursor is the one the
\* successful pull returned.)
C26_CursorMovesOnSuccessOnly ==
  [][/\ (/\ last'.op \in {"SyncEngine.pull", "SyncEngine.pullAll",
                          "SecretsSyncEngine.pullSecrets"}
         /\ ~last'.ok
         /\ ~(/\ last'.op = "SyncEngine.pullAll"
              /\ last'.error = "Not connected to sync service"
              /\ pending' # pending))
        => /\ syncEngine'.syncCursor = syncEngine.syncCursor
           /\ secretsEngine'.syncCursor = secretsEngine.syncCursor
           /\ secret_sync_state' = secret_sync_state
     /\ \A id \in DOMAIN pending' \ DOMAIN pending :
          /\ (pending'[id].op = "pull" /\ ~pending'[id].sinceCursor.some)
               => pending'[id].since = syncEngine'.syncCursor
          /\ pending'[id].op = "pullSecrets" => pending'[id].since = secretsEngine'.syncCursor
    ]_vars

\* A pullSecrets that failed on a checksum with the cursor moved to 1 and
\* saved before it.
C26_Witness ==
  /\ last.op = "SecretsSyncEngine.pullSecrets"
  /\ ~last.ok
  /\ last.error = "Checksum mismatch for secret"
  /\ secretsEngine.syncCursor = 1
  /\ secret_sync_state = Some(1)

\* C27: each engine's cursor is saved after every successful pull, so an
\* engine constructed later over the same database resumes from it: the
\* step that constructs a new SyncEngine, with the cursor where the last
\* pull put it, or a new SecretsSyncEngine leaves the engine's cursor as it is.
C27_NewEngineResumes ==
  [][/\ (/\ last'.op = "new SyncEngine"
         /\ pulled # <<>>
         /\ syncEngine.syncCursor = pulled[Len(pulled)].cursor)
        => syncEngine'.syncCursor = syncEngine.syncCursor
     /\ last'.op = "new SecretsSyncEngine"
          => secretsEngine'.syncCursor = secretsEngine.syncCursor
    ]_vars

\* The events of the server after a cursor, in its order.
RemoteAfter(cursor) == SelectSeq(remote_sync_events, LAMBDA e : e.sequence_num > cursor)

\* A pullAll is under way.
PullAllUnderWay == \E id \in DOMAIN pending : pending[id].all

C29_ConnectionTransitions ==
  [][/\ syncEngine'.isConnected # syncEngine.isConnected
          => \/ /\ last' = Quiet("SyncEngine.connect")
                /\ syncEngine.config /\ syncEngine'.isConnected
             \/ /\ last'.op \in {"SyncEngine.disconnect", "new SyncEngine"}
                /\ ~syncEngine'.isConnected
     /\ secretsEngine'.isConnected # secretsEngine.isConnected
          => \/ /\ last' = Quiet("SecretsSyncEngine.connect")
                /\ secretsEngine.config /\ secretsEngine'.isConnected
             \/ /\ last'.op \in {"SecretsSyncEngine.disconnect", "new SecretsSyncEngine"}
                /\ ~secretsEngine'.isConnected
     /\ (last'.op = "SyncEngine.connect" /\ last' # last /\ ~syncEngine.config)
          => ~last'.ok /\ ~syncEngine'.isConnected
     /\ (last'.op = "SecretsSyncEngine.connect" /\ last' # last /\ ~secretsEngine.config)
          => ~last'.ok /\ ~secretsEngine'.isConnected
    ]_vars

\* A push that the server refused, on an engine that is still Connected.
C29_Witness ==
  /\ last.op = "SyncEngine.push"
  /\ ~last.ok
  /\ last.error = "Push failed"
  /\ syncEngine.isConnected

\* What update stores as the tags of memory id, or None when it throws.
UpdatedTags(id, content, tags) ==
  LET r == update(DB, cryptoKey, id, [content |-> content, tags |-> tags], None)
  IN  IF r.ok THEN Some(r.db.memories[id].tags) ELSE None

\* The new content makes the sanitizer substitute.
Triggers(content) == content.some /\ sanitize(content.val).detected # {}

\* C30: on update of a memory tagged dlp-redacted the tag is kept unless the
\* caller supplies a tags list that omits it; with such a list the tag is
\* re-added only if the new content triggers DLP, and otherwise the stored
\* tags are exactly the caller's list.
C30_OmittedTagDropped ==
  \A id \in DOMAIN memories, content \in Opt(DLPContents), tags \in DLPTagInputs :
    LET stored == UpdatedTags(id, content, tags)
    IN  (Includes(memories[id].tags, "dlp-redacted") /\ stored.some)
          => IF tags.some /\ ~Includes(tags.val, "dlp-redacted")
             THEN IF Triggers(content) THEN Includes(stored.val, "dlp-redacted")
                  ELSE stored.val = tags.val
             ELSE Includes(stored.val, "dlp-redacted")

\* C30 as the code has it: on update of a memory tagged dlp-redacted the tag
\* is always kept. Without a tags list the stored tags stay as they were; a
\* list that holds the tag is stored as it is; to a list that omits the tag
\* the store appends dlp-redacted, whether or not the new content triggers
\* DLP.
C30_RedactedTagKept ==
  \A id \in DOMAIN memories, content \in Opt(DLPContents), tags \in DLPTagInputs :
    LET stored == UpdatedTags(id, content, tags)
    IN  (Includes(memories[id].tags, "dlp-redacted") /\ stored.some)
          => stored.val = IF ~tags.some THEN memories[id].tags
                          ELSE IF Includes(tags.val, "dlp-redacted") THEN tags.val
                          ELSE Append(tags.val, "dlp-redacted")

\* An update left a memory with plain content under the caller's tag
\* followed by dlp-redacted.
C30_Witness ==
  /\ last = Quiet("update")
  /\ \E id \in DOMAIN memories :
       /\ memories[id].content = <<"txt">>
       /\ memories[id].tags = <<"test", "dlp-redacted">>

\* C31: applying an ADD event whose memory id the store already holds leaves
\* the store as it was (rows, vectors and journal), so applying the same ADD
\* event twice leaves the state that applying it once leaves.
C31_ApplyAddIdempotent ==
  \A event \in PeerEvents(KnownIds, StorePeerKeys, StorePeerContents),
     vector \in Opt(StoreVectors) :
    event.type = "ADD" =>
      LET once == applyEncryptedSyncEvent(DB, cryptoKey, event, vector)
          twice == applyEncryptedSyncEvent(once.db, cryptoKey, event, vector)
      IN  /\ event.memoryId \in DOMAIN memories => once.db = DB
          /\ twice.db = once.db

\* An event was applied without error to a store that has held the peer's
\* memory since an earlier time.
C31_Witness ==
  /\ last = Quiet("applyEncryptedSyncEvent")
  /\ PeerId \in DOMAIN memories
  /\ PeerId \in DOMAIN memories_vec
  /\ memories[PeerId].createdAt < clock

\* C32: sanitize is a function of its text and the pattern set: whatever
\* sanitize and hasSecrets calls came before, on this or another instance, a
\* sanitize call returns the sanitized text and the detected set that a
\* sanitizer with fresh patterns returns for the text.
C32_SanitizeDeterministic ==
  dlpCall.op = "sanitize" =>
    /\ dlpCall.sanitized = DLPSanitizer_sanitize(dlpCall.text, FreshPatterns).sanitized
    /\ dlpCall.detected = DLPSanitizer_sanitize(dlpCall.text, FreshPatterns).detected

\* C33: the tags list of every stored memory holds no string twice, whatever
\* tags list the caller gave to create or update.
C33_NoDuplicateTags ==
  \A id \in DOMAIN memories :
    \A i, j \in 1..Len(memories[id].tags) :
      memories[id].tags[i] = memories[id].tags[j] => i = j

\* ADD and UPDATE events that carry an envelope and no checksum.
UncheckedEvents(ids, keys, contents) ==
  {[type |-> t, memoryId |-> id, encryptedData |-> Some(encrypt(k, sent).val),
    checksum |-> NullChecksum, timestamp |-> clock] :
      t \in {"ADD", "UPDATE"}, id \in ids, k \in keys, sent \in contents}

\* C34: applyEncryptedSyncEvent inserts or updates a memory from an ADD or
\* UPDATE event only if the event carries a checksum and the SHA-256 of the
\* decrypted payload equals it; an event without checksum is not applied.
C34_AppliedOnlyIfVerified ==
  \A event \in PeerEvents(KnownIds, StorePeerKeys, StorePeerContents)
               \cup UncheckedEvents(KnownIds, StorePeerKeys, StorePeerContents),
     vector \in Opt(StoreVectors) :
    LET r == applyEncryptedSyncEvent(DB, cryptoKey, event, vector)
    IN  (/\ event.type \in {"ADD", "UPDATE"}
         /\ (r.db.memories # memories \/ r.db.memories_vec # memories_vec))
          => /\ event.checksum # NullChecksum
             /\ decryptContent(cryptoKey, event.encryptedData.val).ok
             /\ sha256(decryptContent(cryptoKey, event.encryptedData.val).val) = event.checksum

\* C35: for a valid ADD event (its payload decrypts and hashes to its
\* checksum) whose memory id the store does not hold, applyEncryptedSyncEvent
\* does not return without error and leave the memory absent: it inserts the
\* memory or throws, with or without a vector from the caller.
C35_ValidAddInsertsOrThrows ==
  \A event \in PeerEvents(KnownIds, StorePeerKeys, StorePeerContents),
     vector \in Opt(StoreVectors) :
    LET d == decryptContent(cryptoKey, event.encryptedData.val)
        r == applyEncryptedSyncEvent(DB, cryptoKey, event, vector)
    IN  (/\ event.type = "ADD"
         /\ d.ok /\ sha256(d.val) = event.checksum
         /\ event.memoryId \notin DOMAIN memories
         /\ r.ok)
          => event.memoryId \in DOMAIN r.db.memories

\* A second embedding of the right dimension, to replace a stored one.
ReplacementVector == [dim |-> VecDim, v |-> 2]

\* C36: for every stored memory the vector of its row in the main table
\* equals its embedding in the vector index, and after
\* update(id, patch, newVector) has returned a memory, get(id) returns
\* newVector.
C36_RowVectorIsIndexVector ==
  \A id \in DOMAIN memories, content \in Opt(StoreContents),
     newVector \in {GoodVector, ReplacementVector} :
    LET r == update(DB, cryptoKey, id, [content |-> content, tags |-> None],
                    Some(newVector))
    IN  (r.ok /\ r.ret.some) =>
          /\ get(r.db, id).val.vector = newVector
          /\ id \in DOMAIN r.db.memories_vec =>
               r.db.memories[id].vector = r.db.memories_vec[id]

\* C37: when an ingestFile call emits stored with a memory id and returns
\* true, the store holds a memory of that id whose source is the call's path
\* and whose content is the summary the call computed (as the store's
\* sanitizer leaves it), whatever happened to the memory found at lookup
\* while the call awaited the summarizer and the embedder.
C37_StoredMeansInStore ==
  [][\A c \in 1..Len(ingests) :
       LET call == ingests[c]
           ended == ingests'[c]
           memoryId == IF call.existing.some THEN call.existing.val ELSE nextId
       IN  (/\ call.pc = "embed"
            /\ ended.pc = "done"
            /\ ended.trace[Len(ended.trace)] = "stored"
            /\ ended.ret)
           => /\ memoryId \in DOMAIN memories'
              /\ memories'[memoryId].source = call.path
              /\ memories'[memoryId].content = sanitize(call.summary).sanitized]_vars

\* C38: the journal rows of overlapping SecretStore.set and delete calls on
\* one key are written in the order of the calls' local writes: when the
\* push of the run's first write is journaled, the journal holds no row yet
\* for that secret, a row that only a later write's push can have left.
C38_JournalInWriteOrder ==
  [][(/\ 1 \in DOMAIN pending
      /\ 1 \notin DOMAIN pending'
      /\ pending[1].op \in {"pushSecret", "deleteSecret"}
      /\ Len(local_secret_sync_events') > Len(local_secret_sync_events))
     => \A i \in 1..Len(local_secret_sync_events) :
          local_secret_sync_events[i].secretId # pending[1].secretId]_vars

\* C39: a finished mcp_set_secret call says "(synced)" only if the call
\* issued a push request to the server, which takes a connected secrets
\* engine, and a journal row of that push exists.
C39_SyncedMeansPushed ==
  \A c \in 1..Len(toolCalls) :
    (/\ toolCalls[c].tool = "mcp_set_secret"
     /\ toolCalls[c].pc = "done"
     /\ toolCalls[c].result = Some([isError |-> FALSE,
                                    text |-> "Secret stored successfully (synced)."]))
      => /\ toolCalls[c].awaits # 0
         /\ local_secret_sync_events # <<>>

\* The POST requests that carried a link code and inserted a device, and
\* those answered with the device and the encrypted master key.
LinkedBy(code) ==
  {c \in 1..Len(linkCalls) : linkCalls[c].linkCode = Some(code) /\ linkCalls[c].device # 0}

AnsweredWithKey(code) ==
  {c \in 1..Len(linkCalls) :
     /\ linkCalls[c].linkCode = Some(code)
     /\ linkCalls[c].response = Response(200, "device, encryptedMasterKey")}

\* C40: a link code is consumed at most once: whatever the interleaving of
\* the POST requests that carry it, at most one of them inserts a device and
\* at most one is answered with the encrypted master key.
C40_LinkCodeUsedOnce ==
  \A code \in LinkCodes :
    /\ Cardinality(LinkedBy(code)) <= 1
    /\ Cardinality(AnsweredWithKey(code)) <= 1

Init == StoreInit /\ IndexingInit /\ llmConfigured = FALSE /\ SyncInit /\ CryptoIdle /\ EmbeddingIdle /\ SanitizerIdle /\ LinkIdle /\ ToolsIdle
Next == StoreNext
Spec == Init /\ [][Next]_vars

IndexingSpecInit == StoreInit /\ cryptoKey = 1 /\ IndexingInit /\ SyncInit /\ CryptoIdle /\ EmbeddingIdle /\ SanitizerIdle /\ LinkIdle /\ ToolsIdle
SpecIndexing == IndexingSpecInit /\ [][IndexingNext]_vars

SyncSpecInit == StoreInit /\ cryptoKey = 0 /\ IndexingInit /\ llmConfigured = FALSE /\ SyncInit /\ CryptoIdle /\ EmbeddingIdle /\ SanitizerIdle /\ LinkIdle /\ ToolsIdle
SpecSync == SyncSpecInit /\ [][SyncNext]_vars

\* Every writer of the two journals: the store's mutations and the secrets
\* engine's pushes, with what the engine needs before it pushes.
JournalContents == {<<"txt">>}
JournalVaultKeys == {[id |-> 1, length |-> 32]}

JournalsNext ==
  \/ Create(JournalContents, StoreTagInputs, {GoodVector})
  \/ Update(JournalContents, StoreTagInputs, {GoodVector})
  \/ Delete
  \/ DeleteOlderThan
  \/ ApplyEncryptedSyncEvent({1}, JournalContents, {GoodVector})
  \/ SecretsConfigure
  \/ SetVaultKey(JournalVaultKeys)
  \/ SecretsConfigureBlindIndex
  \/ SecretsConnect
  \/ PushSecret(JournalContents)
  \/ DeleteSecret
  \/ SecretPushResponds

JournalsInit == StoreInit /\ cryptoKey = 1 /\ IndexingInit /\ llmConfigured = FALSE /\ SyncInit /\ CryptoIdle /\ EmbeddingIdle /\ SanitizerIdle /\ LinkIdle /\ ToolsIdle
SpecJournals == JournalsInit /\ [][JournalsNext]_vars

DLPInit == StoreInit /\ cryptoKey = 1 /\ IndexingInit /\ llmConfigured = FALSE /\ SyncInit /\ CryptoIdle /\ EmbeddingIdle /\ SanitizerIdle /\ LinkIdle /\ ToolsIdle
SpecDLP == DLPInit /\ [][DLPNext]_vars

SpecCryptoInit ==
  StoreInit /\ cryptoKey = 0 /\ IndexingInit /\ llmConfigured = FALSE /\ SyncInit /\ CryptoInit
  /\ EmbeddingIdle /\ SanitizerIdle /\ LinkIdle /\ ToolsIdle
SpecCrypto == SpecCryptoInit /\ [][CryptoNext]_vars

SecretsInit == StoreInit /\ cryptoKey = 0 /\ IndexingInit /\ llmConfigured = FALSE /\ SyncInit /\ CryptoIdle /\ EmbeddingIdle /\ SanitizerIdle /\ LinkIdle /\ ToolsIdle
SpecSecrets == SecretsInit /\ [][SecretsNext]_vars
SpecMirror == SecretsInit /\ [][MirrorNext]_vars

\* createEngramServer(config) over a new database, for every configuration.
ToolsInit ==
  /\ serverConfig \in ServerConfigs
  /\ toolCalls = <<>>
  /\ StoreInit
  /\ cryptoKey = IF serverConfig.masterKey THEN 1 ELSE 0
  /\ IndexingInit /\ llmConfigured = FALSE
  /\ CryptoIdle /\ EmbeddingIdle /\ SanitizerIdle /\ LinkIdle
  /\ syncEngine = NewSyncEngine
  /\ secret_sync_state = None
  /\ local_secret_sync_events = <<>>
  /\ pending = EmptyRows
  /\ fetchCount = 0
  /\ secrets = {}
  /\ secretUuids = 0
  /\ latestSecret = EmptyRows
  /\ remote_sync_events = <<>>
  /\ pulled = <<>>
  /\ secretsEngine = createEngramServer([secrets |-> NewSecretsSyncEngine(None),
                                         secret_sync_state |-> None,
                                         secretStore |-> NewSecretStore],
                                        serverConfig).secrets
  /\ secretStore = createEngramServer([secrets |-> NewSecretsSyncEngine(None),
                                       secret_sync_state |-> None,
                                       secretStore |-> NewSecretStore],
                                      serverConfig).secretStore
SpecTools == ToolsInit /\ [][ToolsNext]_vars

\* A SyncEngine against a server that holds some events.
PullInit ==
  /\ StoreInit /\ cryptoKey = 0
  /\ IndexingInit /\ llmConfigured = FALSE
  /\ CryptoIdle /\ EmbeddingIdle /\ SanitizerIdle /\ LinkIdle /\ ToolsIdle
  /\ syncEngine = NewSyncEngine
  /\ secret_sync_state = None
  /\ secretsEngine = NewSecretsSyncEngine(None)
  /\ local_secret_sync_events = <<>>
  /\ pending = EmptyRows
  /\ fetchCount = 0
  /\ secrets = {}
  /\ secretStore = NewSecretStore
  /\ secretUuids = 0
  /\ latestSecret = EmptyRows
  /\ remote_sync_events \in UNION {Remotes(n) : n \in 0..MaxRemote}
  /\ pulled = <<>>
SpecPull == PullInit /\ [][PullNext]_vars

\* The same with every request settling in the end: fetch resolves or rejects.
SpecPullFair == SpecPull /\ WF_vars(RouteResponds) /\ WF_vars(SignedUrlsRespond)

EmbeddingInit ==
  StoreInit /\ cryptoKey = 0 /\ IndexingInit /\ llmConfigured = FALSE /\ SyncInit /\ CryptoIdle
  /\ EmbeddingIdle /\ SanitizerIdle /\ LinkIdle /\ ToolsIdle
SpecEmbedding == EmbeddingInit /\ [][EmbeddingNext]_vars

\* A DLPSanitizer on its own: sanitize and hasSecrets in any order.
SanitizerInit ==
  StoreInit /\ cryptoKey = 0 /\ IndexingInit /\ llmConfigured = FALSE /\ SyncInit /\ CryptoIdle
  /\ EmbeddingIdle /\ SanitizerIdle /\ LinkIdle /\ ToolsIdle
SpecSanitizer == SanitizerInit /\ [][SanitizerNext]_vars

\* The linking route under concurrent requests.
LinkInit ==
  StoreInit /\ cryptoKey = 0 /\ IndexingInit /\ llmConfigured = FALSE /\ SyncInit /\ CryptoIdle
  /\ EmbeddingIdle /\ SanitizerIdle /\ LinkIdle /\ ToolsIdle
SpecLink == LinkInit /\ [][LinkNext]_vars

====
